---- MODULE Spec2Model ----
(***************************************************************************)
(* Model of the symbol-metadata cache of forecaster-ua/hydra               *)
(* (src/symbol_cache.py, class SymbolCache).                               *)
(*                                                                         *)
(* Time is counted in whole units on one axis: `now` is datetime.now(),    *)
(* a stored 'timestamp' is the time of the fetch that produced it, and     *)
(* Epoch1970 is the default '1970-01-01' used when the key is absent.      *)
(*                                                                         *)
(* A JSON object (the in-memory cache_data and the content of the backing  *)
(* file) is a record                                                       *)
(*   [tsKind, ts, hasSymbols, symbols]                                     *)
(* tsKind = "absent" : no 'timestamp' key;  "bad" : a value that           *)
(* datetime.fromisoformat rejects;  "iso" : a parseable time, in ts.       *)
(* hasSymbols tells whether the 'symbols' key exists; symbols is the set   *)
(* of the entries of the mapping, each entry carrying its key in .symbol.  *)
(* The Python empty dict {} is the record with no key at all (EmptyDict).  *)
(*                                                                         *)
(* Three further components have a variable and a specification each:      *)
(* `race` (two processes refreshing one backing file, SpecRace),           *)
(* `scheduler` (src/get_hedge_fetcher.py, SpecScheduler) and `telegram`    *)
(* (src/telegram_bot.py and the senders of                                 *)
(* src/get_hedge_entry_generator.py, SpecTelegram).  A component that a    *)
(* specification does not exercise stays Absent.                           *)
(***************************************************************************)
EXTENDS Integers, Sequences, FiniteSets, TLC

\* ------------------------------------------------------------------------
\* Bounds of the model
\* ------------------------------------------------------------------------
StartNow == 10
MaxNow == 12
CacheDuration == 1

\* the default of data.get('timestamp', '1970-01-01')
Epoch1970 == 0

VARIABLES
    cache_data,      \* self.cache_data
    cache_file,      \* content of the file self.cache_file
    binance_client,  \* TRUE iff self.binance_client is not None
    now,             \* datetime.now()
    last,            \* observation of the last call: its arguments, result and exchange calls
    race,            \* two processes refreshing one backing file, statement by statement
    scheduler,       \* the HedgeScheduler object and the position of run_scheduler
    telegram         \* the Telegram sender and the requests it made

vars == <<cache_data, cache_file, binance_client, now, last, race, scheduler, telegram>>

\* a component that takes no part in the behaviours of a specification
Absent == [present |-> FALSE]

\* ------------------------------------------------------------------------
\* JSON objects and files
\* ------------------------------------------------------------------------
EmptyDict == [tsKind |-> "absent", ts |-> 0, hasSymbols |-> FALSE, symbols |-> {}]

\* truthiness of a dict: `if self.cache_data` / `if filters_data`
Truthy(d) == d.tsKind # "absent" \/ d.hasSymbols

MissingFile == [kind |-> "missing", data |-> EmptyDict]
CorruptFile == [kind |-> "corrupt", data |-> EmptyDict]
JsonFile(d) == [kind |-> "json", data |-> d]

\* ------------------------------------------------------------------------
\* The exchange, as seen through the two SDK calls
\* ------------------------------------------------------------------------
Milli(units, thousandths) == units * 1000 + thousandths

NoFilter == [present |-> FALSE, tick |-> 0, min |-> 0, max |-> 0]

\* PRICE_FILTER (tickSize, minPrice, maxPrice) of the symbols, in thousandths
PriceFilterOf(s) ==
    CASE s = "BTCUSDT" -> [present |-> TRUE, tick |-> Milli(0, 100), min |-> Milli(500, 0), max |-> Milli(900000, 0)]
      [] s = "ETHUSDT" -> [present |-> TRUE, tick |-> Milli(0, 10), min |-> Milli(40, 0), max |-> Milli(300000, 0)]
      [] OTHER -> [present |-> TRUE, tick |-> Milli(0, 1), min |-> Milli(0, 1), max |-> Milli(2000, 0)]

\* LOT_SIZE (stepSize, minQty, maxQty) of the symbols, in thousandths
LotSizeOf(s) ==
    CASE s = "BTCUSDT" -> [present |-> TRUE, tick |-> Milli(0, 1), min |-> Milli(0, 1), max |-> Milli(1000, 0)]
      [] s = "ETHUSDT" -> [present |-> TRUE, tick |-> Milli(0, 1), min |-> Milli(0, 1), max |-> Milli(10000, 0)]
      [] OTHER -> [present |-> TRUE, tick |-> Milli(1, 0), min |-> Milli(1, 0), max |-> Milli(1000000, 0)]

\* one element of exchange_info['symbols']
ExchangeRecord(s, hasPrice, hasLot) ==
    [symbol |-> s, status |-> "TRADING",
     price_filter |-> IF hasPrice THEN PriceFilterOf(s) ELSE NoFilter,
     lot_size_filter |-> IF hasLot THEN LotSizeOf(s) ELSE NoFilter]

Bracket(lev, cap, mmr) == [initialLeverage |-> lev, notionalCap |-> cap, maintMarginRatio |-> mmr]

\* the leverage tiers the exchange holds for a symbol; the notionalCap of
\* the last tier stands for "no upper bound"
ExchangeBrackets(s) ==
    IF s = "BTCUSDT"
    THEN <<Bracket(20, 50000, "0.01"), Bracket(10, 250000, "0.025"), Bracket(5, 9000000, "0.05")>>
    ELSE <<Bracket(50, 10000, "0.01"), Bracket(25, 9000000, "0.02")>>

\* what futures_leverage_bracket(symbol=s) does, by kind of outcome:
\*   "fail"  : raises;   "empty" : returns [];
\*   "none"  : returns [{'symbol': s}] (no tiers);   "ok" : returns the tiers
BracketKinds == {"fail", "empty", "none", "ok"}

BracketResponse(s, kind) ==
    [raises |-> kind = "fail",
     items |-> CASE kind = "ok" -> <<[brackets |-> ExchangeBrackets(s)]>>
                 [] kind = "none" -> <<[brackets |-> <<>>]>>
                 [] OTHER -> <<>>]

\* ------------------------------------------------------------------------
\* SymbolCache: helpers
\* ------------------------------------------------------------------------
FallbackTickers == {"BTCUSDT", "ETHUSDT", "NKNUSDT"}

\* _load_tickers_from_file: tickers_txt = [exists, readable, symbols] is
\* tickers.txt; readable is FALSE when opening, reading or decoding it
\* raises (the except branch), symbols are the names the three parsing
\* attempts extract from it
load_tickers_from_file(tickers_txt) ==
    IF ~tickers_txt.exists THEN FallbackTickers
    ELSE IF ~tickers_txt.readable THEN FallbackTickers
    ELSE tickers_txt.symbols

\* datetime.fromisoformat(d.get('timestamp', '1970-01-01')):
\* parses[1] is FALSE when it raises, parses[2] is the time otherwise
ParseTimestamp(d) ==
    CASE d.tsKind = "absent" -> <<TRUE, Epoch1970>>
      [] d.tsKind = "iso" -> <<TRUE, d.ts>>
      [] OTHER -> <<FALSE, 0>>

\* is_cache_valid with the comparison turned round
is_cache_valid_inverted(f, t) ==
    IF f.kind = "missing" THEN FALSE
    ELSE IF f.kind = "corrupt" THEN FALSE
    ELSE IF ~ParseTimestamp(f.data)[1] THEN FALSE
    ELSE t - ParseTimestamp(f.data)[2] > CacheDuration

\* is_cache_valid accepting an age equal to the TTL
is_cache_valid_inclusive(f, t) ==
    IF f.kind = "missing" THEN FALSE
    ELSE IF f.kind = "corrupt" THEN FALSE
    ELSE IF ~ParseTimestamp(f.data)[1] THEN FALSE
    ELSE t - ParseTimestamp(f.data)[2] <= CacheDuration

\* _is_cache_valid
is_cache_valid(f, t) ==
    IF f.kind = "missing" THEN FALSE
    ELSE IF f.kind = "corrupt" THEN FALSE
    ELSE IF ~ParseTimestamp(f.data)[1] THEN FALSE
    ELSE t - ParseTimestamp(f.data)[2] < CacheDuration

\* _load_cache
load_cache(f) == IF f.kind = "json" THEN f.data ELSE EmptyDict

\* _save_cache: outcome "ok" writes the document; "open_failed" is open()
\* raising (the file stays as it was); "write_failed" is json.dump raising
\* after open() truncated the file.  Both failures are swallowed.
SaveOutcomes == {"ok", "open_failed", "write_failed"}

save_cache(f, data, outcome) ==
    CASE outcome = "ok" -> JsonFile(data)
      [] outcome = "open_failed" -> f
      [] OTHER -> CorruptFile

\* tick_size "0.01" and step_size "0.001" of a symbol without the filter, in thousandths
DefaultTickSize == 10
DefaultStepSize == 1
DefaultPricePrecision == 2
DefaultQtyPrecision == 3

\* len(str(x).split('.')[-1].rstrip('0')) of a decimal string with three fractional digits
Precision(v) ==
    IF v % 10 # 0 THEN 3 ELSE IF v % 100 # 0 THEN 2 ELSE IF v % 1000 # 0 THEN 1 ELSE 0

\* SymbolEntry without the defaults of a missing filter
SymbolEntry_nodefault(rec) ==
    [symbol |-> rec.symbol,
     status |-> rec.status,
     tick_size |-> rec.price_filter.tick,
     min_price |-> rec.price_filter.min,
     max_price |-> rec.price_filter.max,
     step_size |-> rec.lot_size_filter.tick,
     min_qty |-> rec.lot_size_filter.min,
     max_qty |-> rec.lot_size_filter.max,
     precision_price |-> IF rec.price_filter.present THEN Precision(rec.price_filter.tick) ELSE DefaultPricePrecision,
     precision_qty |-> IF rec.lot_size_filter.present THEN Precision(rec.lot_size_filter.tick) ELSE DefaultQtyPrecision,
     hasBrackets |-> FALSE,
     leverage_brackets |-> <<>>]

\* the entry filters_data['symbols'][symbol] built from one exchange record
SymbolEntry(rec) ==
    [symbol |-> rec.symbol,
     status |-> rec.status,
     tick_size |-> IF rec.price_filter.present THEN rec.price_filter.tick ELSE DefaultTickSize,
     min_price |-> IF rec.price_filter.present THEN rec.price_filter.min ELSE 0,
     max_price |-> IF rec.price_filter.present THEN rec.price_filter.max ELSE 0,
     step_size |-> IF rec.lot_size_filter.present THEN rec.lot_size_filter.tick ELSE DefaultStepSize,
     min_qty |-> IF rec.lot_size_filter.present THEN rec.lot_size_filter.min ELSE 0,
     max_qty |-> IF rec.lot_size_filter.present THEN rec.lot_size_filter.max ELSE 0,
     precision_price |-> IF rec.price_filter.present THEN Precision(rec.price_filter.tick) ELSE DefaultPricePrecision,
     precision_qty |-> IF rec.lot_size_filter.present THEN Precision(rec.lot_size_filter.tick) ELSE DefaultQtyPrecision,
     hasBrackets |-> FALSE,
     leverage_brackets |-> <<>>]

\* the bracket put in place of the tiers of a symbol whose call raised
SyntheticBracket == Bracket(20, 50000, "0.05")

\* the leverage loop without the default for a call that raised
WithLeverageBrackets_nodefault(e, resp) ==
    IF resp.raises
    THEN e
    ELSE IF Len(resp.items) > 0 /\ Len(Head(resp.items).brackets) > 0
         THEN [e EXCEPT !.hasBrackets = TRUE, !.leverage_brackets = Head(resp.items).brackets]
         ELSE e

\* one turn of the leverage loop: the entry after futures_leverage_bracket answered resp
WithLeverageBrackets(e, resp) ==
    IF resp.raises
    THEN [e EXCEPT !.hasBrackets = TRUE, !.leverage_brackets = <<SyntheticBracket>>]
    ELSE IF Len(resp.items) > 0 /\ Len(Head(resp.items).brackets) > 0
         THEN [e EXCEPT !.hasBrackets = TRUE, !.leverage_brackets = Head(resp.items).brackets]
         ELSE e

\* fetch_symbol_filters letting a failed leverage call abort the batch
fetch_symbol_filters_abort(client, symbols, ex, t) ==
    IF ~client THEN EmptyDict
    ELSE IF ex.bulk = "error" THEN EmptyDict
    ELSE IF \E x \in ex.records : x.symbol \in symbols /\ ex.kinds[x.symbol] = "fail" THEN EmptyDict
    ELSE [tsKind |-> "iso", ts |-> t, hasSymbols |-> TRUE,
          symbols |-> {WithLeverageBrackets(SymbolEntry(r), BracketResponse(r.symbol, ex.kinds[r.symbol])) :
                         r \in {x \in ex.records : x.symbol \in symbols}}]

\* _fetch_symbol_filters.  ex = [bulk, records, kinds] is the exchange:
\* bulk = "error" when futures_exchange_info raises or answers something the
\* loop cannot read, records = exchange_info['symbols'], kinds[s] = outcome
\* of futures_leverage_bracket(symbol=s)
fetch_symbol_filters(client, symbols, ex, t) ==
    IF ~client THEN EmptyDict
    ELSE IF ex.bulk = "error" THEN EmptyDict
    ELSE [tsKind |-> "iso", ts |-> t, hasSymbols |-> TRUE,
          symbols |-> {WithLeverageBrackets(SymbolEntry(r), BracketResponse(r.symbol, ex.kinds[r.symbol])) :
                         r \in {x \in ex.records : x.symbol \in symbols}}]

\* the exchange calls _fetch_symbol_filters makes
BulkCalls(client) == IF client THEN 1 ELSE 0

BracketCalls(client, symbols, ex) ==
    IF client /\ ex.bulk = "ok"
    THEN {r.symbol : r \in {x \in ex.records : x.symbol \in symbols}}
    ELSE {}

\* ------------------------------------------------------------------------
\* SymbolCache.update_cache, as a function of the object, the file, the clock
\* and the environment env = [tickers_txt, ex, save, between] met during the
\* call; between is what another process does to the backing file after
\* _is_cache_valid has read it and before _load_cache reads it again
\* ------------------------------------------------------------------------
ExchangeSymbols == {"BTCUSDT", "ETHUSDT", "XRPUSDT"}

\* the backing file is not touched between the two reads
NoChange == [changed |-> FALSE, file |-> MissingFile]

NoExchange == [bulk |-> "error", records |-> {}, kinds |-> [s \in ExchangeSymbols |-> "ok"]]
NoEnv == [tickers_txt |-> [exists |-> FALSE, readable |-> FALSE, symbols |-> {}], ex |-> NoExchange, save |-> "ok", between |-> NoChange]

\* update_cache assigning the fetch result before testing it
update_cache_forgets(cd, f, client, t, force, env) ==
    IF ~force /\ is_cache_valid(f, t)
    THEN [cache_data |-> load_cache(IF env.between.changed THEN env.between.file ELSE f),
          cache_file |-> IF env.between.changed THEN env.between.file ELSE f,
          ret |-> TRUE, fetcher |-> FALSE, bulk_calls |-> 0, bracket_calls |-> {},
          env |-> [NoEnv EXCEPT !.between = env.between]]
    ELSE LET symbols == load_tickers_from_file(env.tickers_txt)
             filters_data == fetch_symbol_filters(client, symbols, env.ex, t)
         IN  IF Truthy(filters_data)
             THEN [cache_data |-> filters_data,
                   cache_file |-> save_cache(f, filters_data, env.save),
                   ret |-> TRUE, fetcher |-> TRUE, bulk_calls |-> BulkCalls(client),
                   bracket_calls |-> BracketCalls(client, symbols, env.ex), env |-> env]
             ELSE [cache_data |-> filters_data, cache_file |-> f, ret |-> FALSE,
                   fetcher |-> TRUE, bulk_calls |-> BulkCalls(client),
                   bracket_calls |-> {}, env |-> env]

update_cache(cd, f, client, t, force, env) ==
    IF ~force /\ is_cache_valid(f, t)
    THEN [cache_data |-> load_cache(IF env.between.changed THEN env.between.file ELSE f),
          cache_file |-> IF env.between.changed THEN env.between.file ELSE f,
          ret |-> TRUE, fetcher |-> FALSE, bulk_calls |-> 0, bracket_calls |-> {},
          env |-> [NoEnv EXCEPT !.between = env.between]]
    ELSE LET symbols == load_tickers_from_file(env.tickers_txt)
             filters_data == fetch_symbol_filters(client, symbols, env.ex, t)
         IN  IF Truthy(filters_data)
             THEN [cache_data |-> filters_data,
                   cache_file |-> save_cache(f, filters_data, env.save),
                   ret |-> TRUE, fetcher |-> TRUE, bulk_calls |-> BulkCalls(client),
                   bracket_calls |-> BracketCalls(client, symbols, env.ex), env |-> env]
             ELSE [cache_data |-> cd, cache_file |-> f, ret |-> FALSE,
                   fetcher |-> TRUE, bulk_calls |-> BulkCalls(client),
                   bracket_calls |-> {}, env |-> env]

\* ------------------------------------------------------------------------
\* SymbolCache: queries
\* ------------------------------------------------------------------------
\* str.upper() on the symbol names the model uses
Upper(s) ==
    CASE s = "btcusdt" -> "BTCUSDT"
      [] s = "ethusdt" -> "ETHUSDT"
      [] OTHER -> s

\* d.get('symbols', {}).get(key): the set holding the entry, {} for None
SymbolsGet(d, key) == IF d.hasSymbols THEN {e \in d.symbols : e.symbol = key} ELSE {}

\* the result of an update_cache that was not called
NoUpdate == [cache_data |-> EmptyDict, cache_file |-> MissingFile, ret |-> FALSE,
             fetcher |-> FALSE, bulk_calls |-> 0, bracket_calls |-> {}, env |-> NoEnv]

\* get_symbol_info refreshing also when the snapshot is older than the TTL
get_symbol_info_ttl(cd, f, client, t, symbol, env) ==
    LET refreshed == ~Truthy(cd) \/ ~(t - ParseTimestamp(cd)[2] < CacheDuration)
        upd == IF refreshed THEN update_cache(cd, f, client, t, FALSE, env) ELSE NoUpdate
        cd2 == IF refreshed THEN upd.cache_data ELSE cd
        f2 == IF refreshed THEN upd.cache_file ELSE f
    IN  [cache_data |-> cd2, cache_file |-> f2, refreshed |-> refreshed, upd |-> upd,
         raised |-> "",
         info |-> IF refreshed /\ ~upd.ret THEN {} ELSE SymbolsGet(cd2, Upper(symbol))]

\* get_symbol_info: the object and file after the call, the nested
\* update_cache (refreshed, upd) and the entry returned (info, {} for None)
get_symbol_info(cd, f, client, t, symbol, env) ==
    LET refreshed == ~Truthy(cd)
        upd == IF refreshed THEN update_cache(cd, f, client, t, FALSE, env) ELSE NoUpdate
        cd2 == IF refreshed THEN upd.cache_data ELSE cd
        f2 == IF refreshed THEN upd.cache_file ELSE f
    IN  [cache_data |-> cd2, cache_file |-> f2, refreshed |-> refreshed, upd |-> upd,
         raised |-> "",
         info |-> IF refreshed /\ ~upd.ret THEN {} ELSE SymbolsGet(cd2, Upper(symbol))]

\* get_leverage_brackets: as above; raised = "KeyError" when
\* self.cache_data['symbols'] finds no such key
get_leverage_brackets(cd, f, client, t, symbol, env) ==
    LET refreshed == ~Truthy(cd)
        upd == IF refreshed THEN update_cache(cd, f, client, t, FALSE, env) ELSE NoUpdate
        cd2 == IF refreshed THEN upd.cache_data ELSE cd
        f2 == IF refreshed THEN upd.cache_file ELSE f
        symbol_info == {e \in cd2.symbols : e.symbol = symbol}
    IN  [cache_data |-> cd2, cache_file |-> f2, refreshed |-> refreshed, upd |-> upd,
         raised |-> IF refreshed /\ ~upd.ret THEN ""
                    ELSE IF ~cd2.hasSymbols THEN "KeyError" ELSE "",
         brackets |-> IF (refreshed /\ ~upd.ret) \/ ~cd2.hasSymbols \/ symbol_info = {}
                      THEN <<>>
                      ELSE LET e == CHOOSE x \in symbol_info : TRUE
                           IN  IF e.hasBrackets THEN e.leverage_brackets ELSE <<>>]

NoStats == [cached_symbols |-> 0, cache_age |-> "", age |-> 0, cache_valid |-> FALSE]

\* get_cache_stats accepting an age equal to the TTL
get_cache_stats_inclusive(cd, t) ==
    IF ~Truthy(cd)
    THEN [cached_symbols |-> 0, cache_age |-> "No cache", age |-> 0, cache_valid |-> FALSE]
    ELSE IF ~ParseTimestamp(cd)[1]
         THEN [cached_symbols |-> 0, cache_age |-> "Invalid", age |-> 0, cache_valid |-> FALSE]
         ELSE LET age == t - ParseTimestamp(cd)[2]
              IN  [cached_symbols |-> IF cd.hasSymbols THEN Cardinality(cd.symbols) ELSE 0,
                   cache_age |-> "age", age |-> age,
                   cache_valid |-> age <= CacheDuration]

\* get_cache_stats; cache_age "age" stands for str(age), the age being in .age
get_cache_stats(cd, t) ==
    IF ~Truthy(cd)
    THEN [cached_symbols |-> 0, cache_age |-> "No cache", age |-> 0, cache_valid |-> FALSE]
    ELSE IF ~ParseTimestamp(cd)[1]
         THEN [cached_symbols |-> 0, cache_age |-> "Invalid", age |-> 0, cache_valid |-> FALSE]
         ELSE LET age == t - ParseTimestamp(cd)[2]
              IN  [cached_symbols |-> IF cd.hasSymbols THEN Cardinality(cd.symbols) ELSE 0,
                   cache_age |-> "age", age |-> age,
                   cache_valid |-> age < CacheDuration]

\* ------------------------------------------------------------------------
\* Numbers.  A float argument or result is the decimal its repr shows,
\* [m, e] standing for m * 10^-e (str(price) is that decimal, and
\* float(Decimal) of a decimal of few digits prints back as it); a float is
\* kept in the shortest form, without trailing zeros (Norm).  The decimal
\* strings of an entry are whole numbers of thousandths.
\* ------------------------------------------------------------------------
Pow10(n) ==
    CASE n = 0 -> 1 [] n = 1 -> 10 [] n = 2 -> 100 [] n = 3 -> 1000
      [] n = 4 -> 10000 [] n = 5 -> 100000 [] OTHER -> 1000000

Pow5(n) ==
    CASE n = 0 -> 1 [] n = 1 -> 5 [] n = 2 -> 25 [] n = 3 -> 125
      [] n = 4 -> 625 [] n = 5 -> 3125 [] OTHER -> 15625

Dec(m, e) == [m |-> m, e |-> e]

RECURSIVE Norm(_)
Norm(d) == IF d.e > 0 /\ d.m % 10 = 0 THEN Norm(Dec(d.m \div 10, d.e - 1)) ELSE d

Max2(a, b) == IF a >= b THEN a ELSE b

\* the digits after the point of the decimal strings of an entry
EntryDigits == 3

\* Decimal(str(v)) of an entry's value
EntryDec(v) == Dec(v, EntryDigits)

\* a <= b and a < b on decimals (scaling the coarser one down, not the finer one up)
DecLeq(a, b) ==
    IF a.e >= b.e
    THEN (a.m + Pow10(a.e - b.e) - 1) \div Pow10(a.e - b.e) <= b.m
    ELSE a.m <= b.m \div Pow10(b.e - a.e)

DecLess(a, b) == ~DecLeq(b, a)

\* HalfUpQuotient rounding a half towards the even neighbour
HalfUpQuotient_even(num, den) ==
    LET q == num \div den
        r == num % den
    IN  IF 2 * r < den THEN q
        ELSE IF 2 * r > den THEN q + 1
        ELSE IF q % 2 = 0 THEN q ELSE q + 1

\* (num / den).quantize(Decimal('1'), rounding=ROUND_HALF_UP): the nearest
\* integer, a half going away from zero
HalfUpQuotient(num, den) ==
    IF num >= 0 THEN (2 * num + den) \div (2 * den)
    ELSE 0 - ((2 * (0 - num) + den) \div (2 * den))

\* QuantizeToSize returning the number of steps, not scaled back by the size
QuantizeToSize_unscaled(x, v) ==
    LET E == Max2(x.e, EntryDigits)
        num == x.m * Pow10(E - x.e)
        den == v * Pow10(E - EntryDigits)
    IN  Norm(Dec(HalfUpQuotient(num, den), 0))

\* float((Decimal(str(x)) / size).quantize(Decimal('1'), ROUND_HALF_UP) * size)
\* for size = Decimal(str(v)), v an entry's tick_size or step_size
QuantizeToSize(x, v) ==
    LET E == Max2(x.e, EntryDigits)
        num == x.m * Pow10(E - x.e)
        den == v * Pow10(E - EntryDigits)
    IN  Norm(Dec(HalfUpQuotient(num, den) * v, EntryDigits))

\* the double of the decimal x is that decimal exactly
ExactInBinary(x) == x.m % Pow5(x.e) = 0

\* the built-in round(x, ndigits) of a non-negative float: the decimal of
\* ndigits digits nearest to the double.  A decimal half that the double
\* holds exactly goes to the even neighbour; otherwise the double lies just
\* below or just above the half, which `skew` ("below", "above") tells.
PyRound(x, ndigits, skew) ==
    IF x.e <= ndigits THEN Norm(x)
    ELSE LET den == Pow10(x.e - ndigits)
             q == x.m \div den
             r == x.m % den
             up == IF 2 * r > den THEN TRUE
                   ELSE IF 2 * r < den THEN FALSE
                   ELSE IF ExactInBinary(x) THEN q % 2 = 1
                   ELSE skew = "above"
         IN  Norm(Dec(IF up THEN q + 1 ELSE q, ndigits))

\* ------------------------------------------------------------------------
\* SymbolCache: the normalizer and the leverage selector
\* ------------------------------------------------------------------------
\* 'BTC' in symbol, on the symbol names the model uses
ContainsBTC(s) == s \in {"BTCUSDT"}

\* the entry a lookup returned (info is not None)
EntryOf(info) == CHOOSE e \in info : TRUE

\* RoundedPrice with the fallback digits of the two kinds of names exchanged
RoundedPrice_swapped(info, symbol, price, skew) ==
    IF info = {}
    THEN IF ContainsBTC(symbol) THEN PyRound(price, 2, skew) ELSE PyRound(price, 1, skew)
    ELSE IF EntryOf(info).tick_size = 0
         THEN PyRound(price, EntryOf(info).precision_price, skew)
         ELSE QuantizeToSize(price, EntryOf(info).tick_size)

\* what round_price returns once its lookup returned info.  A tick_size of
\* zero makes the division raise, which the bare except turns into
\* round(price, precision)
RoundedPrice(info, symbol, price, skew) ==
    IF info = {}
    THEN IF ContainsBTC(symbol) THEN PyRound(price, 1, skew) ELSE PyRound(price, 2, skew)
    ELSE IF EntryOf(info).tick_size = 0
         THEN PyRound(price, EntryOf(info).precision_price, skew)
         ELSE QuantizeToSize(price, EntryOf(info).tick_size)

\* RoundedQuantity quantizing to the tick_size
RoundedQuantity_tick(info, symbol, quantity, skew) ==
    IF info = {}
    THEN IF ContainsBTC(symbol) THEN PyRound(quantity, 3, skew) ELSE PyRound(quantity, 6, skew)
    ELSE IF EntryOf(info).tick_size = 0
         THEN PyRound(quantity, EntryOf(info).precision_qty, skew)
         ELSE QuantizeToSize(quantity, EntryOf(info).tick_size)

\* what round_quantity returns once its lookup returned info
RoundedQuantity(info, symbol, quantity, skew) ==
    IF info = {}
    THEN IF ContainsBTC(symbol) THEN PyRound(quantity, 3, skew) ELSE PyRound(quantity, 6, skew)
    ELSE IF EntryOf(info).step_size = 0
         THEN PyRound(quantity, EntryOf(info).precision_qty, skew)
         ELSE QuantizeToSize(quantity, EntryOf(info).step_size)

\* the object and file after a lookup r, the entry it returned (info) and
\* the value computed from it
Looked(r, value) ==
    [cache_data |-> r.cache_data, cache_file |-> r.cache_file, info |-> r.info, value |-> value]

\* round_price, r being its lookup
round_price_after(r, symbol, price, skew) == Looked(r, RoundedPrice(r.info, symbol, price, skew))

\* round_price: the object and file after the call, the entry its lookup
\* returned and the rounded price
round_price(cd, f, client, t, symbol, price, env, skew) ==
    round_price_after(get_symbol_info(cd, f, client, t, symbol, env), symbol, price, skew)

\* round_quantity, r being its lookup
round_quantity_after(r, symbol, quantity, skew) ==
    Looked(r, RoundedQuantity(r.info, symbol, quantity, skew))

\* round_quantity
round_quantity(cd, f, client, t, symbol, quantity, env, skew) ==
    round_quantity_after(get_symbol_info(cd, f, client, t, symbol, env), symbol, quantity, skew)

Zero == Dec(0, 0)

\* the limit test accepting a value that is within either pair of limits
WithinLimits_either(info, rounded_price, rounded_quantity) ==
    \/ /\ DecLeq(EntryDec(info.min_price), rounded_price)
       /\ DecLeq(rounded_price, EntryDec(info.max_price))
    \/ /\ DecLeq(EntryDec(info.min_qty), rounded_quantity)
       /\ DecLeq(rounded_quantity, EntryDec(info.max_qty))

\* the limit test of validate_order_params
WithinLimits(info, rounded_price, rounded_quantity) ==
    /\ DecLeq(EntryDec(info.min_price), rounded_price)
    /\ DecLeq(rounded_price, EntryDec(info.max_price))
    /\ DecLeq(EntryDec(info.min_qty), rounded_quantity)
    /\ DecLeq(rounded_quantity, EntryDec(info.max_qty))

\* the basic test accepting zero
BasicCheck_nonneg(rounded_price, rounded_quantity) ==
    DecLeq(Zero, rounded_price) /\ DecLeq(Zero, rounded_quantity)

\* the basic test of validate_order_params when there is no entry
BasicCheck(rounded_price, rounded_quantity) ==
    DecLess(Zero, rounded_price) /\ DecLess(Zero, rounded_quantity)

\* validate_order_params once its round_quantity has returned (lines 343-358),
\* r being its own lookup of line 337, rp its round_price of line 340 and rq
\* its round_quantity of line 341
validate_order_params_after(r, rp, rq) ==
    [cache_data |-> rq.cache_data, cache_file |-> rq.cache_file,
     info |-> r.info, price_info |-> rp.info, quantity_info |-> rq.info,
     rounded_price |-> rp.value, rounded_quantity |-> rq.value,
     is_valid |-> IF r.info # {}
                  THEN WithinLimits(EntryOf(r.info), rp.value, rq.value)
                  ELSE BasicCheck(rp.value, rq.value)]

Min2(a, b) == IF a <= b THEN a ELSE b

\* the scan without the break: the last bracket that holds the position wins
RECURSIVE ScanBrackets_nobreak(_, _, _)
ScanBrackets_nobreak(brackets, notional_value, default_leverage) ==
    IF brackets = <<>> THEN default_leverage
    ELSE IF notional_value <= Head(brackets).notionalCap
         THEN ScanBrackets_nobreak(Tail(brackets), notional_value, Head(brackets).initialLeverage)
         ELSE ScanBrackets_nobreak(Tail(brackets), notional_value, default_leverage)

\* the scan of calculate_optimal_leverage: max_leverage after the loop
RECURSIVE ScanBrackets(_, _, _)
ScanBrackets(brackets, notional_value, default_leverage) ==
    IF brackets = <<>> THEN default_leverage
    ELSE IF notional_value <= Head(brackets).notionalCap
         THEN Head(brackets).initialLeverage
         ELSE ScanBrackets(Tail(brackets), notional_value, default_leverage)

\* calculate_optimal_leverage, r being its get_leverage_brackets
calculate_optimal_leverage_after(r, notional_value, default_leverage) ==
    [cache_data |-> r.cache_data, cache_file |-> r.cache_file,
     raised |-> r.raised, brackets |-> r.brackets,
     leverage |-> IF r.raised # "" THEN 0
                  ELSE IF r.brackets = <<>> THEN default_leverage
                  ELSE Min2(default_leverage,
                            ScanBrackets(r.brackets, notional_value, default_leverage))]

\* calculate_optimal_leverage; an exception of get_leverage_brackets goes
\* through to the caller (raised), the leverage then being none (0)
calculate_optimal_leverage(cd, f, client, t, symbol, notional_value, default_leverage, env) ==
    calculate_optimal_leverage_after(get_leverage_brackets(cd, f, client, t, symbol, env),
                                     notional_value, default_leverage)

\* what a call of the normalizer or of the leverage selector was given and returned
\* the dict get_leverage_info returns when there are no brackets
NoLeverageInfo == [min_leverage |-> 1, max_leverage |-> 20, brackets |-> <<>>, available |-> FALSE]

\* min / max of bracket['initialLeverage'] over a non-empty list
MinLeverage(brackets) ==
    CHOOSE m \in {brackets[i].initialLeverage : i \in DOMAIN brackets} :
        \A i \in DOMAIN brackets : m <= brackets[i].initialLeverage

MaxLeverage(brackets) ==
    CHOOSE m \in {brackets[i].initialLeverage : i \in DOMAIN brackets} :
        \A i \in DOMAIN brackets : m >= brackets[i].initialLeverage

\* get_leverage_info once get_leverage_brackets has returned r (or raised)
get_leverage_info_after(r) ==
    [cache_data |-> r.cache_data, cache_file |-> r.cache_file, refreshed |-> r.refreshed,
     upd |-> r.upd, raised |-> r.raised, brackets |-> r.brackets,
     leverage_info |-> IF r.raised # "" \/ r.brackets = <<>>
                       THEN NoLeverageInfo
                       ELSE [min_leverage |-> MinLeverage(r.brackets),
                             max_leverage |-> MaxLeverage(r.brackets),
                             brackets |-> r.brackets, available |-> TRUE]]

\* get_leverage_info
get_leverage_info(cd, f, client, t, symbol, env) ==
    get_leverage_info_after(get_leverage_brackets(cd, f, client, t, symbol, env))

NoQuery ==
    [price |-> Zero, quantity |-> Zero, skew |-> "",
     info |-> {}, price_info |-> {}, quantity_info |-> {},
     rounded_price |-> Zero, rounded_quantity |-> Zero, is_valid |-> FALSE,
     notional_value |-> 0, default_leverage |-> 0, leverage |-> 0]

\* ------------------------------------------------------------------------
\* Environment: what the calls can meet
\* ------------------------------------------------------------------------
\* tickers.txt: absent, unreadable, or naming one symbol
TickerFiles ==
    {[exists |-> FALSE, readable |-> FALSE, symbols |-> {}],
     [exists |-> TRUE, readable |-> FALSE, symbols |-> {}],
     [exists |-> TRUE, readable |-> TRUE, symbols |-> {"BTCUSDT"}]}

Records(listing) == {ExchangeRecord(s, TRUE, TRUE) : s \in listing}

\* outcomes of the leverage call per symbol (XRPUSDT is never asked for)
KindChoices ==
    {k \in [ExchangeSymbols -> BracketKinds] :
        /\ k["BTCUSDT"] \in {"fail", "ok", "empty"}
        /\ k["ETHUSDT"] \in {"fail", "ok", "none"}
        /\ k["XRPUSDT"] = "ok"}

Exchanges ==
    {NoExchange}
    \cup {[bulk |-> "ok", records |-> {}, kinds |-> [s \in ExchangeSymbols |-> "ok"]]}
    \cup {[bulk |-> "ok", records |-> Records(ExchangeSymbols), kinds |-> k] : k \in KindChoices}

\* the exchange that lists every symbol and answers every leverage call
FullExchange ==
    [bulk |-> "ok", records |-> Records(ExchangeSymbols), kinds |-> [s \in ExchangeSymbols |-> "ok"]]

\* the inputs of one refresh: every exchange met without tickers.txt, the
\* full exchange met with tickers.txt, and two refreshes whose write fails
Envs ==
    {NoEnv}
    \cup {[tickers_txt |-> [exists |-> FALSE, readable |-> FALSE, symbols |-> {}], ex |-> ex, save |-> "ok", between |-> NoChange] :
            ex \in Exchanges \ {NoExchange}}
    \cup {[tickers_txt |-> tk, ex |-> FullExchange, save |-> "ok", between |-> NoChange] : tk \in TickerFiles}
    \cup {[tickers_txt |-> [exists |-> FALSE, readable |-> FALSE, symbols |-> {}], ex |-> FullExchange, save |-> sv, between |-> NoChange] :
            sv \in SaveOutcomes \ {"ok"}}

\* a snapshot another process fetched at time t
ForeignSnapshot(t) == fetch_symbol_filters(TRUE, FallbackTickers, FullExchange, t)

\* what the backing file can be made to hold from outside at time t
ForeignFiles(t) ==
    { MissingFile, CorruptFile,
      JsonFile(EmptyDict),
      JsonFile([ForeignSnapshot(t) EXCEPT !.tsKind = "absent", !.ts = 0]),
      JsonFile([ForeignSnapshot(t) EXCEPT !.tsKind = "bad", !.ts = 0]),
      JsonFile([ForeignSnapshot(t) EXCEPT !.hasSymbols = FALSE, !.symbols = {}]),
      JsonFile(ForeignSnapshot(t)) }

\* what another process can do to the file between the two reads
Betweens(t) == {NoChange} \cup {[changed |-> TRUE, file |-> g] : g \in ForeignFiles(t)}

\* the inputs a call consumes: an unforced call on a valid backing file
\* loads it, and meets whatever happens to the file before the load; any
\* other call goes to the exchange when there is a client
EnvsFor(client, f, t, force) ==
    IF ~force /\ is_cache_valid(f, t)
    THEN {[NoEnv EXCEPT !.between = b] : b \in Betweens(t)}
    ELSE IF client THEN Envs ELSE {NoEnv}

\* a query refreshes only when cache_data is empty
QueryEnvsFor(cd, client, f, t) ==
    IF Truthy(cd) THEN {NoEnv} ELSE EnvsFor(client, f, t, FALSE)

QuerySymbols == {"BTCUSDT", "btcusdt", "ETHUSDT", "NKNUSDT"}

\* ------------------------------------------------------------------------
\* The state machine
\* ------------------------------------------------------------------------
NoCall ==
    [op |-> "init", force |-> FALSE, symbol |-> "", at |-> 0, raised |-> "",
     ret |-> FALSE, refreshed |-> FALSE, fetcher |-> FALSE, bulk_calls |-> 0,
     bracket_calls |-> {}, env |-> NoEnv, info |-> {}, brackets |-> <<>>, stats |-> NoStats,
     leverage_info |-> NoLeverageInfo, q |-> NoQuery]

\* SymbolCache.__init__: empty cache_data; the client exists iff the API
\* keys are configured and Client() did not raise
Init ==
    /\ cache_data = EmptyDict
    /\ binance_client \in BOOLEAN
    /\ now = StartNow
    /\ cache_file \in ForeignFiles(StartNow)
    /\ last = NoCall
    /\ race = Absent
    /\ scheduler = Absent
    /\ telegram = Absent

\* validate_order_params has been entered and has not returned: it is about
\* to call round_price (line 340) or round_quantity (line 341)
InCall == last.op \in {"validate_order_params:round_price", "validate_order_params:round_quantity"}

Call_update_cache(force, env) ==
    LET u == update_cache(cache_data, cache_file, binance_client, now, force, env)
    IN  /\ ~InCall
        /\ cache_data' = u.cache_data
        /\ cache_file' = u.cache_file
        /\ last' = [NoCall EXCEPT !.op = "update_cache", !.force = force, !.at = now,
                                  !.ret = u.ret, !.refreshed = TRUE, !.fetcher = u.fetcher,
                                  !.bulk_calls = u.bulk_calls, !.bracket_calls = u.bracket_calls,
                                  !.env = u.env]
        /\ UNCHANGED <<binance_client, now, race, scheduler, telegram>>

Call_get_symbol_info(symbol, env) ==
    LET r == get_symbol_info(cache_data, cache_file, binance_client, now, symbol, env)
    IN  /\ ~InCall
        /\ cache_data' = r.cache_data
        /\ cache_file' = r.cache_file
        /\ last' = [NoCall EXCEPT !.op = "get_symbol_info", !.symbol = symbol, !.at = now,
                                  !.raised = r.raised,
                                  !.ret = r.upd.ret, !.refreshed = r.refreshed, !.fetcher = r.upd.fetcher,
                                  !.bulk_calls = r.upd.bulk_calls, !.bracket_calls = r.upd.bracket_calls,
                                  !.env = r.upd.env, !.info = r.info]
        /\ UNCHANGED <<binance_client, now, race, scheduler, telegram>>

Call_get_leverage_brackets(symbol, env) ==
    LET r == get_leverage_brackets(cache_data, cache_file, binance_client, now, symbol, env)
    IN  /\ ~InCall
        /\ cache_data' = r.cache_data
        /\ cache_file' = r.cache_file
        /\ last' = [NoCall EXCEPT !.op = "get_leverage_brackets", !.symbol = symbol, !.at = now,
                                  !.raised = r.raised,
                                  !.ret = r.upd.ret, !.refreshed = r.refreshed, !.fetcher = r.upd.fetcher,
                                  !.bulk_calls = r.upd.bulk_calls, !.bracket_calls = r.upd.bracket_calls,
                                  !.env = r.upd.env, !.brackets = r.brackets]
        /\ UNCHANGED <<binance_client, now, race, scheduler, telegram>>

Call_get_leverage_info(symbol, env) ==
    /\ ~InCall
    /\ \E r \in {get_leverage_info(cache_data, cache_file, binance_client, now, symbol, env)} :
        /\ cache_data' = r.cache_data
        /\ cache_file' = r.cache_file
        /\ last' = [NoCall EXCEPT !.op = "get_leverage_info", !.symbol = symbol, !.at = now,
                                  !.raised = r.raised,
                                  !.ret = r.upd.ret, !.refreshed = r.refreshed, !.fetcher = r.upd.fetcher,
                                  !.bulk_calls = r.upd.bulk_calls, !.bracket_calls = r.upd.bracket_calls,
                                  !.env = r.upd.env, !.brackets = r.brackets,
                                  !.leverage_info = r.leverage_info]
        /\ UNCHANGED <<binance_client, now, race, scheduler, telegram>>

Call_get_cache_stats ==
    /\ ~InCall
    /\ last' = [NoCall EXCEPT !.op = "get_cache_stats", !.at = now,
                              !.stats = get_cache_stats(cache_data, now)]
    /\ UNCHANGED <<cache_data, cache_file, binance_client, now, race, scheduler, telegram>>

\* time passes, also while validate_order_params is between two lookups
Tick ==
    /\ now < MaxNow
    /\ now' = now + 1
    /\ last' = IF InCall THEN last ELSE [NoCall EXCEPT !.op = "tick"]
    /\ UNCHANGED <<cache_data, cache_file, binance_client, race, scheduler, telegram>>

\* the backing file is changed from outside the object, also while
\* validate_order_params is between two lookups
ExternalWrite(f) ==
    /\ cache_file' = f
    /\ last' = IF InCall THEN last ELSE [NoCall EXCEPT !.op = "external_write"]
    /\ UNCHANGED <<cache_data, binance_client, now, race, scheduler, telegram>>

\* ------------------------------------------------------------------------
\* The normalizer and the leverage selector at work: a fresh object whose
\* queries refresh it, then serve from the snapshot
\* ------------------------------------------------------------------------
\* the exchange of the examples: BTCUSDT with tick 0.01 and three tiers,
\* ETHUSDT without filters and with a failing leverage call, NKNUSDT with
\* filters and no tiers
ExampleBTCRecord ==
    [symbol |-> "BTCUSDT", status |-> "TRADING",
     price_filter |-> [present |-> TRUE, tick |-> Milli(0, 10), min |-> Milli(100, 0), max |-> Milli(100000, 0)],
     lot_size_filter |-> [present |-> TRUE, tick |-> Milli(0, 1), min |-> Milli(0, 1), max |-> Milli(1000, 0)]]

ExampleExchange ==
    [bulk |-> "ok",
     records |-> {ExampleBTCRecord, ExchangeRecord("ETHUSDT", FALSE, FALSE), ExchangeRecord("NKNUSDT", TRUE, TRUE)},
     kinds |-> [s \in ExchangeSymbols \cup {"NKNUSDT"} |->
                  CASE s = "BTCUSDT" -> "ok" [] s = "ETHUSDT" -> "fail" [] OTHER -> "empty"]]

NoTickersTxt == [exists |-> FALSE, readable |-> FALSE, symbols |-> {}]

\* what a refresh inside a query can meet
QEnvs == {NoEnv, [tickers_txt |-> NoTickersTxt, ex |-> ExampleExchange, save |-> "ok", between |-> NoChange]}

\* the inputs a query consumes: none unless it refreshes and reaches the exchange
QEnvsFor(cd, client, f, t) ==
    IF ~Truthy(cd) /\ client /\ ~is_cache_valid(f, t) THEN QEnvs ELSE {NoEnv}

\* the backing file a fresh object can find
QFiles ==
    { MissingFile,
      JsonFile([ForeignSnapshot(StartNow) EXCEPT !.hasSymbols = FALSE, !.symbols = {}]),
      JsonFile(fetch_symbol_filters(TRUE, FallbackTickers, ExampleExchange, StartNow)) }

QSymbols == {"BTCUSDT", "ETHUSDT", "NKNUSDT", "FAKEUSDT"}

\* prices: 50000.125, 1.23456, 0.125, 0.285, 0.25, 0.3, 0
Prices ==
    {Dec(50000125, 3), Dec(123456, 5), Dec(125, 3), Dec(285, 3), Dec(25, 2), Dec(3, 1), Zero}

\* quantities: 0.0015, 0.002, 0.12345, 2.5, 3, 2000, 0
Quantities ==
    {Dec(15, 4), Dec(2, 3), Dec(12345, 5), Dec(25, 1), Dec(3, 0), Dec(2000, 0), Zero}

\* the orders validate_order_params is asked about
Orders ==
    {<<Dec(125, 3), Dec(2000, 0)>>, <<Dec(50000125, 3), Dec(15, 4)>>,
     <<Dec(50000125, 3), Dec(2000, 0)>>, <<Dec(125, 3), Dec(2, 3)>>,
     <<Zero, Dec(2, 3)>>, <<Dec(123456, 5), Dec(12345, 5)>>,
     <<Dec(285, 3), Zero>>}

Skews == {"below", "above"}

\* x lies halfway between two decimals of n digits and its double is not x
InexactTie(x, n) ==
    /\ x.e > n
    /\ 2 * (x.m % Pow10(x.e - n)) = Pow10(x.e - n)
    /\ ~ExactInBinary(x)

\* the skews that can tell in a round(x, n) of the fallbacks; skew is read on
\* an inexact tie only
SkewsFor(x, digits) == IF \E n \in digits : InexactTie(x, n) THEN Skews ELSE {"below"}

Notionals == {10000, 50000, 60000, 100000}

DefaultLeverages == {5, 20, 25}

InitQ ==
    /\ cache_data = EmptyDict
    /\ binance_client \in BOOLEAN
    /\ now = StartNow
    /\ cache_file \in QFiles
    /\ last = NoCall
    /\ race = Absent
    /\ scheduler = Absent
    /\ telegram = Absent

Call_round_price(symbol, price, env, skew) ==
    /\ ~InCall
    /\ \E r \in {round_price(cache_data, cache_file, binance_client, now, symbol, price, env, skew)} :
        /\ cache_data' = r.cache_data
        /\ cache_file' = r.cache_file
        /\ last' = [NoCall EXCEPT !.op = "round_price", !.symbol = symbol, !.at = now,
                      !.q = [NoQuery EXCEPT !.price = price, !.skew = skew, !.price_info = r.info,
                                            !.rounded_price = r.value]]
        /\ UNCHANGED <<binance_client, now, race, scheduler, telegram>>

Call_round_quantity(symbol, quantity, env, skew) ==
    /\ ~InCall
    /\ \E r \in {round_quantity(cache_data, cache_file, binance_client, now, symbol, quantity, env, skew)} :
        /\ cache_data' = r.cache_data
        /\ cache_file' = r.cache_file
        /\ last' = [NoCall EXCEPT !.op = "round_quantity", !.symbol = symbol, !.at = now,
                      !.q = [NoQuery EXCEPT !.quantity = quantity, !.skew = skew, !.quantity_info = r.info,
                                            !.rounded_quantity = r.value]]
        /\ UNCHANGED <<binance_client, now, race, scheduler, telegram>>

\* validate_order_params is entered and makes its own lookup (line 337)
Call_validate_order_params(symbol, price, quantity, env) ==
    /\ ~InCall
    /\ \E r \in {get_symbol_info(cache_data, cache_file, binance_client, now, symbol, env)} :
        /\ cache_data' = r.cache_data
        /\ cache_file' = r.cache_file
        /\ last' = [NoCall EXCEPT !.op = "validate_order_params:round_price", !.symbol = symbol, !.at = now,
                      !.q = [NoQuery EXCEPT !.price = price, !.quantity = quantity, !.info = r.info]]
        /\ UNCHANGED <<binance_client, now, race, scheduler, telegram>>

\* line 340: round_price, with a lookup of its own
Call_validate_order_params_round_price(env, skew) ==
    /\ last.op = "validate_order_params:round_price"
    /\ \E rp \in {round_price(cache_data, cache_file, binance_client, now, last.symbol, last.q.price, env, skew)} :
        /\ cache_data' = rp.cache_data
        /\ cache_file' = rp.cache_file
        /\ last' = [last EXCEPT !.op = "validate_order_params:round_quantity",
                                !.q.price_info = rp.info, !.q.rounded_price = rp.value]
        /\ UNCHANGED <<binance_client, now, race, scheduler, telegram>>

\* lines 341-358: round_quantity, with a lookup of its own, then the
\* validity from the entry of line 337, and the return
Call_validate_order_params_round_quantity(env, skew) ==
    /\ last.op = "validate_order_params:round_quantity"
    /\ \E r \in {validate_order_params_after(
                     [info |-> last.q.info],
                     [info |-> last.q.price_info, value |-> last.q.rounded_price],
                     round_quantity(cache_data, cache_file, binance_client, now,
                                    last.symbol, last.q.quantity, env, skew))} :
        /\ cache_data' = r.cache_data
        /\ cache_file' = r.cache_file
        /\ last' = [last EXCEPT !.op = "validate_order_params",
                                !.q.quantity_info = r.quantity_info,
                                !.q.rounded_quantity = r.rounded_quantity,
                                !.q.is_valid = r.is_valid]
        /\ UNCHANGED <<binance_client, now, race, scheduler, telegram>>

Call_calculate_optimal_leverage(symbol, notional_value, default_leverage, env) ==
    /\ ~InCall
    /\ \E r \in {calculate_optimal_leverage(cache_data, cache_file, binance_client, now,
                                        symbol, notional_value, default_leverage, env)} :
        /\ cache_data' = r.cache_data
        /\ cache_file' = r.cache_file
        /\ last' = [NoCall EXCEPT !.op = "calculate_optimal_leverage", !.symbol = symbol, !.at = now,
                      !.raised = r.raised, !.brackets = r.brackets,
                      !.q = [NoQuery EXCEPT !.notional_value = notional_value,
                                            !.default_leverage = default_leverage,
                                            !.leverage = r.leverage]]
        /\ UNCHANGED <<binance_client, now, race, scheduler, telegram>>

\* a price to round: one of Prices, or what the last round_price returned
PricesNow == Prices \cup (IF last.op = "round_price" THEN {last.q.rounded_price} ELSE {})

QuantitiesNow == Quantities \cup (IF last.op = "round_quantity" THEN {last.q.rounded_quantity} ELSE {})

NextQ ==
    \/ \E symbol \in QSymbols, price \in PricesNow :
          \E skew \in SkewsFor(price, {1, 2}), env \in QEnvsFor(cache_data, binance_client, cache_file, now) :
             Call_round_price(symbol, price, env, skew)
    \/ \E symbol \in QSymbols, quantity \in QuantitiesNow :
          \E skew \in SkewsFor(quantity, {3, 6}), env \in QEnvsFor(cache_data, binance_client, cache_file, now) :
             Call_round_quantity(symbol, quantity, env, skew)
    \/ \E symbol \in QSymbols, order \in Orders :
          \E env \in QEnvsFor(cache_data, binance_client, cache_file, now) :
             Call_validate_order_params(symbol, order[1], order[2], env)
    \/ \E skew \in SkewsFor(last.q.price, {1, 2}), env \in QEnvsFor(cache_data, binance_client, cache_file, now) :
          Call_validate_order_params_round_price(env, skew)
    \/ \E skew \in SkewsFor(last.q.quantity, {3, 6}), env \in QEnvsFor(cache_data, binance_client, cache_file, now) :
          Call_validate_order_params_round_quantity(env, skew)
    \/ \E symbol \in QSymbols, notional_value \in Notionals, default_leverage \in DefaultLeverages :
          \E env \in QEnvsFor(cache_data, binance_client, cache_file, now) :
             Call_calculate_optimal_leverage(symbol, notional_value, default_leverage, env)

SpecQ == InitQ /\ [][NextQ]_vars

\* ------------------------------------------------------------------------
\* The cache in use: every public operation of SymbolCache, the clock and
\* the other writers of the backing file
\* ------------------------------------------------------------------------
\* the numbers the normalizer is asked about here: price 50000.125,
\* quantity 0.002
SamplePrice == Dec(50000125, 3)
SampleQuantity == Dec(2, 3)

\* the symbol of the orders and of the leverage selection
OrderSymbols == {"BTCUSDT"}

Next ==
    \/ \E force \in BOOLEAN :
          \E env \in EnvsFor(binance_client, cache_file, now, force) : Call_update_cache(force, env)
    \/ \E symbol \in QuerySymbols :
          \E env \in QueryEnvsFor(cache_data, binance_client, cache_file, now) : Call_get_symbol_info(symbol, env)
    \/ \E symbol \in QuerySymbols :
          \E env \in QueryEnvsFor(cache_data, binance_client, cache_file, now) : Call_get_leverage_brackets(symbol, env)
    \/ \E symbol \in QuerySymbols :
          \E env \in QueryEnvsFor(cache_data, binance_client, cache_file, now) : Call_get_leverage_info(symbol, env)
    \/ \E symbol \in OrderSymbols :
          \E skew \in SkewsFor(SamplePrice, {1, 2}), env \in QueryEnvsFor(cache_data, binance_client, cache_file, now) :
             Call_round_price(symbol, SamplePrice, env, skew)
    \/ \E symbol \in OrderSymbols :
          \E skew \in SkewsFor(SampleQuantity, {3, 6}), env \in QueryEnvsFor(cache_data, binance_client, cache_file, now) :
             Call_round_quantity(symbol, SampleQuantity, env, skew)
    \/ \E symbol \in OrderSymbols :
          \E env \in QueryEnvsFor(cache_data, binance_client, cache_file, now) :
             Call_validate_order_params(symbol, SamplePrice, SampleQuantity, env)
    \/ \E skew \in SkewsFor(last.q.price, {1, 2}), env \in QueryEnvsFor(cache_data, binance_client, cache_file, now) :
          Call_validate_order_params_round_price(env, skew)
    \/ \E skew \in SkewsFor(last.q.quantity, {3, 6}), env \in QueryEnvsFor(cache_data, binance_client, cache_file, now) :
          Call_validate_order_params_round_quantity(env, skew)
    \/ \E symbol \in OrderSymbols, notional_value \in {100000}, default_leverage \in {20} :
          \E env \in QueryEnvsFor(cache_data, binance_client, cache_file, now) :
             Call_calculate_optimal_leverage(symbol, notional_value, default_leverage, env)
    \/ Call_get_cache_stats
    \/ Tick
    \/ \E f \in ForeignFiles(now) : ExternalWrite(f)

Spec == Init /\ [][Next]_vars

\* ------------------------------------------------------------------------
\* The Fetcher at work: refreshes against exchanges whose records have or
\* lack each of the two filters.  A filter that is there carries the sizes
\* the exchange answers: those of its listing, or a tickSize / stepSize of
\* "0.000", which lines 152 and 155 copy as they copy any other
\* ------------------------------------------------------------------------
FetchKinds ==
    {[s \in ExchangeSymbols |-> "ok"],
     [s \in ExchangeSymbols |-> IF s = "BTCUSDT" THEN "fail" ELSE "ok"]}

FetchExchanges ==
    {NoExchange}
    \cup {[bulk |-> "ok",
           records |-> {[ExchangeRecord("BTCUSDT", bp # "absent", bl # "absent")
                            EXCEPT !.price_filter.tick = IF bp = "zero" THEN 0 ELSE @,
                                   !.lot_size_filter.tick = IF bl = "zero" THEN 0 ELSE @],
                        ExchangeRecord("ETHUSDT", ep, el)},
           kinds |-> k] : bp \in {"absent", "listed", "zero"}, bl \in {"absent", "listed", "zero"},
                          ep \in BOOLEAN, el \in BOOLEAN, k \in FetchKinds}

FetchEnvsFor(client, f, t, force) ==
    IF client /\ (force \/ ~is_cache_valid(f, t))
    THEN {[tickers_txt |-> NoTickersTxt, ex |-> ex, save |-> "ok", between |-> NoChange] : ex \in FetchExchanges}
    ELSE {NoEnv}

InitFetch ==
    /\ cache_data = EmptyDict
    /\ binance_client \in BOOLEAN
    /\ now = StartNow
    /\ cache_file = MissingFile
    /\ last = NoCall
    /\ race = Absent
    /\ scheduler = Absent
    /\ telegram = Absent

NextFetch ==
    \/ \E force \in BOOLEAN :
          \E env \in FetchEnvsFor(binance_client, cache_file, now, force) : Call_update_cache(force, env)
    \/ Tick

SpecFetch == InitFetch /\ [][NextFetch]_vars

\* ------------------------------------------------------------------------
\* Telegram delivery: telegram_bot.py and the senders of
\* get_hedge_entry_generator.py
\* ------------------------------------------------------------------------
MaxResults == 3
MaxFails == 2
MAX_API_RETRIES == 3

CacheIdle ==
    UNCHANGED <<cache_data, cache_file, binance_client, now, last>>

\* How the Telegram API answers the successive requests for one message:
\* the first `fails` requests fail in the way `kind`, every later one is
\* accepted.
Answers ==
    {[fails |-> 0, kind |-> "ok"]}
    \cup {[fails |-> k, kind |-> x] : k \in 1..MaxFails, x \in {"http_error", "network_error"}}

\* requests.post followed by raise_for_status, for the attempt-th request
\* of a message: "network_error" is post raising, "http_error" is
\* raise_for_status raising
requests_post(answer, attempt) ==
    IF attempt <= answer.fails THEN answer.kind ELSE "ok"

\* TelegramBot._send_request: one request; every exception is caught and
\* turned into False
_send_request(answer) ==
    [ret |-> requests_post(answer, 1) = "ok", attempts |-> 1]

\* TelegramBot.send_message: the result of _send_request selects a log
\* line only; the method returns None and raises nothing
send_message(answer) ==
    [raised |-> FALSE, request |-> _send_request(answer)]

\* MultiSignalAnalyzer.send_to_telegram
send_to_telegram(available, answer) ==
    IF ~available
    THEN [ret |-> FALSE, requests |-> <<>>]
    ELSE LET s == send_message(answer)
             sent == <<[result |-> 1, ret |-> s.request.ret, attempts |-> s.request.attempts]>>
         IN  IF s.raised
             THEN [ret |-> FALSE, requests |-> sent]
             ELSE [ret |-> TRUE, requests |-> sent]

\* the loop of send_multiple_to_telegram from the i-th result on:
\* format_telegram_message may raise, which skips the send; otherwise the
\* message is sent and counted
RECURSIVE SendLoop(_, _, _, _)
SendLoop(results, i, success_count, requests) ==
    IF i > Len(results)
    THEN [success_count |-> success_count, requests |-> requests]
    ELSE IF ~results[i].format_ok
         THEN SendLoop(results, i + 1, success_count, requests)
         ELSE LET s == send_message(results[i].answer)
                  sent == Append(requests, [result |-> i, ret |-> s.request.ret,
                                          attempts |-> s.request.attempts])
              IN  IF s.raised
                  THEN SendLoop(results, i + 1, success_count, sent)
                  ELSE SendLoop(results, i + 1, success_count + 1, sent)

\* send_multiple_to_telegram
send_multiple_to_telegram(available, results) ==
    IF ~available
    THEN [success_count |-> 0, requests |-> <<>>]
    ELSE SendLoop(results, 1, 0, <<>>)

\* one analysed ticker handed to send_multiple_to_telegram
ResultInputs ==
    {[format_ok |-> TRUE, answer |-> a] : a \in Answers}
    \cup {[format_ok |-> FALSE, answer |-> [fails |-> 0, kind |-> "ok"]]}

ResultLists ==
    UNION {[1..n -> ResultInputs] : n \in 0..MaxResults}

\* the import guard: TELEGRAM_AVAILABLE and telegram_bot
InitTelegram ==
    /\ cache_data = EmptyDict
    /\ binance_client = FALSE
    /\ now = StartNow
    /\ cache_file = MissingFile
    /\ last = NoCall
    /\ race = Absent
    /\ scheduler = Absent
    /\ telegram \in {[present |-> TRUE, available |-> a, op |-> "init", results |-> <<>>,
                      requests |-> <<>>, success_count |-> 0, ret |-> FALSE] : a \in BOOLEAN}

Call_send_to_telegram(answer) ==
    /\ telegram.present
    /\ \E r \in {send_to_telegram(telegram.available, answer)} :
          telegram' = [telegram EXCEPT !.op = "send_to_telegram",
                                       !.results = <<[format_ok |-> TRUE, answer |-> answer]>>,
                                       !.requests = r.requests,
                                       !.success_count = 0,
                                       !.ret = r.ret]
    /\ CacheIdle
    /\ UNCHANGED <<race, scheduler>>

Call_send_multiple_to_telegram(results) ==
    /\ telegram.present
    /\ \E r \in {send_multiple_to_telegram(telegram.available, results)} :
          telegram' = [telegram EXCEPT !.op = "send_multiple_to_telegram",
                                       !.results = results,
                                       !.requests = r.requests,
                                       !.success_count = r.success_count,
                                       !.ret = FALSE]
    /\ CacheIdle
    /\ UNCHANGED <<race, scheduler>>

NextTelegram ==
    \/ \E answer \in Answers : Call_send_to_telegram(answer)
    \/ \E results \in ResultLists : Call_send_multiple_to_telegram(results)

SpecTelegram == InitTelegram /\ [][NextTelegram]_vars

\* ------------------------------------------------------------------------
\* The scheduler: get_hedge_fetcher.py, class HedgeScheduler
\*
\* Time is counted in whole seconds of local time, second 0 being a local
\* midnight; every local day of the window has DaySec seconds (no
\* daylight-saving change) and pytz is importable.  Time passes while the
\* analyzer runs and while the loop sleeps.  The behaviours are cut at
\* Horizon seconds past the midnight for as long as no shutdown signal has
\* been handled.
\* ------------------------------------------------------------------------
StartBefore == 130
Horizon == 600
DaySec == 86400
MinuteSec == 60
SleepSec == 10
AnalyzerTimeout == 300

NoTick == 0 - 1

IntervalMinutes == {1, 7, 15}

\* HedgeScheduler.get_local_midnight_timestamp
get_local_midnight_timestamp(t) == t - (t % DaySec)

\* math.ceil(a / b) for a >= 0, b > 0
Ceil(a, b) == (a + b - 1) \div b

\* HedgeScheduler.calculate_next_tick
calculate_next_tick(t, step) ==
    LET midnight == get_local_midnight_timestamp(t)
        elapsed == t - midnight
    IN  IF elapsed % step = 0
        THEN t
        ELSE midnight + Ceil(elapsed, step) * step

\* subprocess outcomes of run_hedge_analyzer and the time each takes
AnalyzerRuns ==
    {[outcome |-> o, duration |-> d] : o \in {"ok", "failed"}, d \in {1, 45, 70}}
    \cup {[outcome |-> "timeout", duration |-> AnalyzerTimeout],
          [outcome |-> "missing", duration |-> 0],
          [outcome |-> "spawn_error", duration |-> 0]}

\* HedgeScheduler.run_hedge_analyzer: True only for return code 0
run_hedge_analyzer(run) == run.outcome = "ok"

\* a variant that tries a failed run again at the same tick
after_execution_retry(success, next_tick, interval_seconds, current_after_execution) ==
    IF ~success
    THEN next_tick
    ELSE IF current_after_execution > next_tick + interval_seconds
         THEN get_local_midnight_timestamp(current_after_execution)
              + Ceil(current_after_execution - get_local_midnight_timestamp(current_after_execution),
                     interval_seconds) * interval_seconds
         ELSE next_tick + interval_seconds

\* a variant without the jump over the ticks missed by an overrun
after_execution_nojump(success, next_tick, interval_seconds, current_after_execution) ==
    next_tick + interval_seconds

\* run_scheduler after run_hedge_analyzer has returned: success selects a
\* log line only; next_tick moves on by one interval, and past an overrun
\* to the next multiple counted from the midnight of the current day
after_execution(success, next_tick, interval_seconds, current_after_execution) ==
    IF current_after_execution > next_tick + interval_seconds
    THEN get_local_midnight_timestamp(current_after_execution)
         + Ceil(current_after_execution - get_local_midnight_timestamp(current_after_execution),
                interval_seconds) * interval_seconds
    ELSE next_tick + interval_seconds

NoExecution ==
    [tick |-> NoTick, started |-> 0, finished |-> 0, success |-> FALSE, running |-> FALSE]

SchedulerIdle ==
    /\ UNCHANGED <<cache_data, cache_file, binance_client, now, last>>
    /\ UNCHANGED <<race, telegram>>

\* main and HedgeScheduler.__init__, up to the call of run_scheduler
InitScheduler ==
    /\ cache_data = EmptyDict
    /\ binance_client = FALSE
    /\ now = StartNow
    /\ cache_file = MissingFile
    /\ last = NoCall
    /\ race = Absent
    /\ telegram = Absent
    /\ scheduler \in {[present |-> TRUE, interval_seconds |-> m * MinuteSec, running |-> TRUE,
                       pc |-> "start", clock |-> c, next_tick |-> NoTick,
                       execution |-> NoExecution, previous_tick |-> NoTick, advanced |-> FALSE] :
                         m \in IntervalMinutes, c \in {DaySec - StartBefore, DaySec - 2 * MinuteSec}}

\* run_scheduler: next_tick = self.calculate_next_tick()
Sched_start ==
    /\ scheduler.present /\ scheduler.pc = "start"
    /\ scheduler' = [scheduler EXCEPT !.next_tick = calculate_next_tick(scheduler.clock, scheduler.interval_seconds),
                                      !.pc = "while"]
    /\ SchedulerIdle

\* while self.running:
Sched_while ==
    /\ scheduler.present /\ scheduler.pc = "while"
    /\ scheduler' = [scheduler EXCEPT !.pc = IF scheduler.running THEN "check" ELSE "returned"]
    /\ SchedulerIdle

\* current_time = time.time(); if current_time >= next_tick:
Sched_check ==
    /\ scheduler.present /\ scheduler.pc = "check"
    /\ scheduler' = [scheduler EXCEPT !.pc = IF scheduler.clock >= scheduler.next_tick THEN "run" ELSE "sleep"]
    /\ SchedulerIdle

\* success = self.run_hedge_analyzer()
Sched_run_hedge_analyzer(run) ==
    /\ scheduler.present /\ scheduler.pc = "run"
    /\ scheduler.running => scheduler.clock + run.duration <= DaySec + Horizon
    /\ scheduler' = [scheduler EXCEPT !.execution = [tick |-> scheduler.next_tick,
                                                      started |-> scheduler.clock,
                                                      finished |-> scheduler.clock + run.duration,
                                                      success |-> run_hedge_analyzer(run),
                                                      running |-> scheduler.running],
                                      !.previous_tick = scheduler.execution.tick,
                                      !.advanced = FALSE,
                                      !.clock = scheduler.clock + run.duration,
                                      !.pc = "advance"]
    /\ SchedulerIdle

\* the rest of the if body: next_tick += interval and the overrun check
Sched_advance ==
    /\ scheduler.present /\ scheduler.pc = "advance"
    /\ scheduler' = [scheduler EXCEPT !.next_tick = after_execution(scheduler.execution.success, scheduler.next_tick,
                                                                    scheduler.interval_seconds, scheduler.clock),
                                      !.advanced = TRUE,
                                      !.pc = "sleep"]
    /\ SchedulerIdle

\* time.sleep(10); a signal handled during the sleep does not shorten it
Sched_sleep ==
    /\ scheduler.present /\ scheduler.pc = "sleep"
    /\ scheduler.running => scheduler.clock + SleepSec <= DaySec + Horizon
    /\ scheduler' = [scheduler EXCEPT !.clock = scheduler.clock + SleepSec, !.pc = "while"]
    /\ SchedulerIdle

\* HedgeScheduler.signal_handler, run by the interpreter between any two
\* steps of run_scheduler on SIGINT or SIGTERM
Sched_signal_handler ==
    /\ scheduler.present /\ scheduler.pc # "returned" /\ scheduler.running
    /\ scheduler' = [scheduler EXCEPT !.running = FALSE]
    /\ SchedulerIdle

NextScheduler ==
    \/ Sched_start
    \/ Sched_while
    \/ Sched_check
    \/ \E run \in AnalyzerRuns : Sched_run_hedge_analyzer(run)
    \/ Sched_advance
    \/ Sched_sleep
    \/ Sched_signal_handler

SpecScheduler == InitScheduler /\ [][NextScheduler]_vars

\* the steps of run_scheduler itself: the interpreter keeps executing the
\* loop, the analyzer ends by itself or by its timeout, a sleep ends
Sched_step ==
    \/ Sched_start
    \/ Sched_while
    \/ Sched_check
    \/ \E run \in AnalyzerRuns : Sched_run_hedge_analyzer(run)
    \/ Sched_advance
    \/ Sched_sleep

SpecSchedulerFair == SpecScheduler /\ WF_vars(Sched_step)

\* ------------------------------------------------------------------------
\* Two processes refreshing one backing file: update_cache step by step
\*
\* The content of the file is a sequence of blocks, a block being a run of
\* bytes of one fixed size.  A document is the block sequence of one
\* json.dump: `owner` is the process whose fetch produced it (0: a document
\* found at the start), `len` its size in blocks and `layout` the shape of
\* its text (the keys, and the width of every value), chosen by each fetch.
\* The file object holds BufBlocks blocks before it writes them, so a
\* document of up to BufBlocks blocks reaches the file in one write, at
\* close, and a longer one in several.  A write replaces the blocks from the
\* writer's own offset on and leaves every other block of the file as it is.
\* The documents of the window carry fresh timestamps.
\* ------------------------------------------------------------------------
MaxBlocks == 3
BufBlocks == 2

Procs == {1, 2}

NoDoc == [owner |-> 0 - 1, len |-> 0, layout |-> ""]

Hole == [owner |-> 0 - 1, len |-> 0, layout |-> "", idx |-> 0]

\* json.dump(data, f): the blocks of the document
Dump(doc) ==
    [i \in 1..doc.len |-> [owner |-> doc.owner, len |-> doc.len, layout |-> doc.layout, idx |-> i]]

\* the owner of a document made of blocks of both processes
Mixed == 0 - 2

\* the content is as long as one document and has, block by block, the
\* blocks of documents of that length and of one layout, each in its place
InPlace(cells) ==
    /\ Len(cells) >= 1
    /\ \A i \in 1..Len(cells) :
          /\ cells[i].owner >= 0
          /\ cells[i].idx = i
          /\ cells[i].len = Len(cells)
          /\ cells[i].layout = cells[1].layout

\* json.load(f) of the whole content: the document, which is made of both
\* processes' values when blocks of two documents of the same size and
\* layout stand each in its place, or NoDoc when the content is not one
\* complete document (JSONDecodeError): an empty file, a document cut
\* short, a hole, or a document followed by what is left of a longer one
JsonLoad(cells) ==
    IF ~InPlace(cells) THEN NoDoc
    ELSE [owner |-> IF \A i \in 1..Len(cells) : cells[i].owner = cells[1].owner
                    THEN cells[1].owner
                    ELSE Mixed,
          len |-> Len(cells),
          layout |-> cells[1].layout]

\* a write of `blocks` at offset pos of a file holding cells: the blocks
\* pos+1 .. pos+Len(blocks) are replaced, the others stay, bytes past the
\* end extend the file, a gap left by a truncation reads as zeros
WriteAt(cells, pos, blocks) ==
    [i \in 1..Max2(Len(cells), pos + Len(blocks)) |->
        IF i > pos /\ i <= pos + Len(blocks) THEN blocks[i - pos]
        ELSE IF i <= Len(cells) THEN cells[i]
        ELSE Hole]

NoFileYet == [exists |-> FALSE, cells |-> <<>>]

IdleProc ==
    [pc |-> "idle", force |-> FALSE, doc |-> NoDoc, pos |-> 0, cache_data |-> NoDoc,
     ret |-> FALSE, saved |-> FALSE]

RaceIdle ==
    /\ UNCHANGED <<cache_data, cache_file, binance_client, now, last>>
    /\ UNCHANGED <<scheduler, telegram>>

\* two SymbolCache objects in two processes, same cache_file
InitRace ==
    /\ cache_data = EmptyDict
    /\ binance_client = TRUE
    /\ now = StartNow
    /\ cache_file = MissingFile
    /\ last = NoCall
    /\ scheduler = Absent
    /\ telegram = Absent
    /\ race \in {[present |-> TRUE, file |-> f, last_writer |-> 0,
                  proc |-> [p \in Procs |-> IdleProc]] :
                    f \in {NoFileYet,
                           [exists |-> TRUE, cells |-> Dump([owner |-> 0, len |-> 1, layout |-> "a"])]}}

\* update_cache(force) is entered
Race_update_cache(p, force) ==
    /\ race.present /\ race.proc[p].pc \in {"idle", "done"}
    /\ race' = [race EXCEPT !.proc[p] = [IdleProc EXCEPT !.pc = IF force THEN "fetch" ELSE "is_cache_valid",
                                                          !.force = force,
                                                          !.cache_data = race.proc[p].cache_data]]
    /\ RaceIdle

\* _is_cache_valid: exists, open, json.load, timestamp check
Race_is_cache_valid(p) ==
    /\ race.present /\ race.proc[p].pc = "is_cache_valid"
    /\ race' = [race EXCEPT !.proc[p].pc =
                    IF race.file.exists /\ JsonLoad(race.file.cells) # NoDoc THEN "load_cache" ELSE "fetch"]
    /\ RaceIdle

\* self.cache_data = self._load_cache(); return True
Race_load_cache(p) ==
    /\ race.present /\ race.proc[p].pc = "load_cache"
    /\ race' = [race EXCEPT !.proc[p].cache_data = IF race.file.exists THEN JsonLoad(race.file.cells) ELSE NoDoc,
                            !.proc[p].ret = TRUE,
                            !.proc[p].pc = "done"]
    /\ RaceIdle

\* _load_tickers_from_file and _fetch_symbol_filters: a document of n
\* blocks and of the given layout, or nothing (return False)
Race_fetch_symbol_filters(p, n, layout) ==
    /\ race.present /\ race.proc[p].pc = "fetch"
    /\ race' = [race EXCEPT !.proc[p] =
                    IF n = 0
                    THEN [@ EXCEPT !.ret = FALSE, !.pc = "done"]
                    ELSE [@ EXCEPT !.doc = [owner |-> p, len |-> n, layout |-> layout], !.pc = "open"]]
    /\ RaceIdle

\* _save_cache: open(self.cache_file, 'w') creates or truncates the file
Race_open(p) ==
    /\ race.present /\ race.proc[p].pc = "open"
    /\ race' = [race EXCEPT !.file = [exists |-> TRUE, cells |-> <<>>],
                            !.proc[p].pos = 0,
                            !.proc[p].pc = "write"]
    /\ RaceIdle

\* _save_cache: one write of json.dump's output, a full buffer or, at close,
\* what is left of the document
Race_write(p) ==
    /\ race.present /\ race.proc[p].pc = "write"
    /\ \E n \in {Min2(BufBlocks, race.proc[p].doc.len - race.proc[p].pos)} :
          race' = [race EXCEPT !.file.cells = WriteAt(race.file.cells, race.proc[p].pos,
                                                      SubSeq(Dump(race.proc[p].doc), race.proc[p].pos + 1,
                                                             race.proc[p].pos + n)),
                               !.last_writer = p,
                               !.proc[p].pos = @ + n,
                               !.proc[p].pc = IF race.proc[p].pos + n = race.proc[p].doc.len
                                              THEN "assign" ELSE "write"]
    /\ RaceIdle

\* self.cache_data = filters_data; return True
Race_assign(p) ==
    /\ race.present /\ race.proc[p].pc = "assign"
    /\ race' = [race EXCEPT !.proc[p].cache_data = race.proc[p].doc,
                            !.proc[p].ret = TRUE,
                            !.proc[p].saved = TRUE,
                            !.proc[p].pc = "done"]
    /\ RaceIdle

NextRace ==
    \E p \in Procs :
        \/ \E force \in BOOLEAN : Race_update_cache(p, force)
        \/ Race_is_cache_valid(p)
        \/ Race_load_cache(p)
        \/ \E n \in 0..MaxBlocks, layout \in {"a", "b"} : Race_fetch_symbol_filters(p, n, layout)
        \/ Race_open(p)
        \/ Race_write(p)
        \/ Race_assign(p)

SpecRace == InitRace /\ [][NextRace]_vars

\* ------------------------------------------------------------------------
\* Vocabulary of the properties about the cache
\* ------------------------------------------------------------------------
\* the symbols a refresh asked for and the symbols the exchange listed
Requested(env) ==
    IF env.tickers_txt.exists /\ env.tickers_txt.readable THEN env.tickers_txt.symbols ELSE FallbackTickers
Listed(env) == {r.symbol : r \in env.ex.records}

SymbolNames(d) == {e.symbol : e \in d.symbols}

\* the tiers an entry carries: entry.get('leverage_brackets', [])
BracketsOf(e) == IF e.hasBrackets THEN e.leverage_brackets ELSE <<>>

\* the bulk call was made and raised
BulkCallErrored == last.bulk_calls = 1 /\ last.env.ex.bulk = "error"

\* a backing file that is a JSON object with a timestamp of age below the TTL
FreshFile(f, t) == f.kind = "json" /\ f.data.tsKind = "iso" /\ t - f.data.ts < CacheDuration

\* a backing file that is a JSON object with a timestamp of age at least the TTL
StaleFile(f, t) == f.kind = "json" /\ f.data.tsKind = "iso" /\ t - f.data.ts >= CacheDuration

\* a backing file that is missing, not JSON, or without a readable timestamp
UnusableFile(f) == f.kind \in {"missing", "corrupt"} \/ f.data.tsKind \in {"absent", "bad"}

\* ------------------------------------------------------------------------
\* C1
\* ------------------------------------------------------------------------
\* C1: update_cache(force=False) whose Fetcher returns no data (no client, or
\* the bulk call raised) returns False and leaves cache_data and the backing
\* file exactly as they were.
C1_FailsSoftly ==
    [][(/\ last'.op = "update_cache"
        /\ ~last'.force
        /\ last'.fetcher
        /\ (~binance_client \/ last'.env.ex.bulk = "error"))
       => (/\ last'.ret = FALSE
           /\ cache_data' = cache_data
           /\ cache_file' = cache_file)]_vars

\* a failed unforced refresh that found a snapshot in memory and a stale file
C1_Witness ==
    /\ last.op = "update_cache"
    /\ ~last.force
    /\ last.fetcher
    /\ ~last.ret
    /\ BulkCallErrored
    /\ Truthy(cache_data)
    /\ StaleFile(cache_file, last.at)

\* ------------------------------------------------------------------------
\* C2
\* ------------------------------------------------------------------------
\* C2: update_cache(force=False) on a backing file whose timestamp is younger
\* than cache_duration returns True with no bulk call and no leverage-bracket
\* call, and cache_data is what loading the file gives: the content the
\* validity check saw whenever no other process changed the file before the
\* load.
C2_FreshFileLoaded ==
    [][(/\ last'.op = "update_cache"
        /\ ~last'.force
        /\ FreshFile(cache_file, now))
       => (/\ last'.ret = TRUE
           /\ ~last'.fetcher
           /\ last'.bulk_calls = 0
           /\ last'.bracket_calls = {}
           /\ cache_data' = load_cache(cache_file')
           /\ ~last'.env.between.changed
              => (/\ cache_data' = cache_file.data
                  /\ cache_file' = cache_file))]_vars

\* a fresh file written by another process was loaded over a different snapshot
C2_Witness ==
    /\ last.op = "update_cache"
    /\ ~last.force
    /\ last.ret
    /\ ~last.fetcher
    /\ binance_client
    /\ ~last.env.between.changed
    /\ FreshFile(cache_file, last.at)
    /\ cache_data = cache_file.data
    /\ cache_data.symbols # {}

\* ------------------------------------------------------------------------
\* C3
\* ------------------------------------------------------------------------
\* C3: after an update_cache that went through the Fetcher and returned True,
\* cache_data is the snapshot just fetched (its time, exactly the requested
\* symbols the exchange lists) and the backing file holds that same snapshot.
C3_FetchedSnapshotPersisted ==
    (last.op = "update_cache" /\ last.fetcher /\ last.ret)
    => (/\ cache_data.tsKind = "iso"
        /\ cache_data.ts = last.at
        /\ cache_data.hasSymbols
        /\ SymbolNames(cache_data) = Requested(last.env) \cap Listed(last.env)
        /\ cache_file = JsonFile(cache_data))

\* update_cache(force=True) with the exchange reachable and a backing file
\* that cannot be opened for writing: True is returned, nothing is on disk
C3_Divergence ==
    /\ last.op = "update_cache"
    /\ last.fetcher
    /\ last.ret
    /\ last.env.save = "open_failed"
    /\ cache_file # JsonFile(cache_data)

\* ------------------------------------------------------------------------
\* C4
\* ------------------------------------------------------------------------
\* C4: update_cache(force=False) on a backing file whose age is at least the
\* TTL, and every update_cache(force=True), invokes the Fetcher (one bulk call
\* when there is a client) and does not reuse the file: cache_data becomes the
\* snapshot fetched now, or stays what it was when the fetch fails.
C4_StaleOrForcedFetches ==
    [][(/\ last'.op = "update_cache"
        /\ (last'.force \/ StaleFile(cache_file, now)))
       => (/\ last'.fetcher
           /\ last'.bulk_calls = (IF binance_client THEN 1 ELSE 0)
           /\ (last'.ret => cache_data'.tsKind = "iso" /\ cache_data'.ts = now)
           /\ (~last'.ret => cache_data' = cache_data))]_vars

\* an unforced refresh went to the exchange for a file exactly TTL old
C4_Witness ==
    /\ last.op = "update_cache"
    /\ ~last.force
    /\ last.fetcher
    /\ last.ret
    /\ last.bulk_calls = 1
    /\ last.env.save = "open_failed"
    /\ cache_file.kind = "json"
    /\ cache_file.data.tsKind = "iso"
    /\ last.at - cache_file.data.ts = CacheDuration

\* ------------------------------------------------------------------------
\* C5
\* ------------------------------------------------------------------------
\* C5: get_cache_stats reports cache_valid exactly when a snapshot is loaded
\* and now - fetched_at < ttl (an age equal to the TTL is invalid); loaded
\* data without a readable fetch time is reported invalid; with no snapshot
\* it reports cache_valid false and 0 symbols.
C5_StatsValidity ==
    (last.op = "get_cache_stats")
    => IF Truthy(cache_data)
       THEN /\ cache_data.tsKind = "iso"
               => /\ last.stats.cache_valid <=> (now - cache_data.ts < CacheDuration)
                  /\ last.stats.cached_symbols = Cardinality(cache_data.symbols)
            /\ cache_data.tsKind # "iso" => ~last.stats.cache_valid
       ELSE /\ ~last.stats.cache_valid
            /\ last.stats.cached_symbols = 0

\* stats asked for a snapshot whose age equals the TTL
C5_Witness ==
    /\ last.op = "get_cache_stats"
    /\ Truthy(cache_data)
    /\ cache_data.tsKind = "iso"
    /\ cache_data.symbols # {}
    /\ now - cache_data.ts = CacheDuration
    /\ ~last.stats.cache_valid

\* ------------------------------------------------------------------------
\* C6
\* ------------------------------------------------------------------------
\* C6: get_symbol_info calls update_cache exactly when cache_data is empty;
\* with a snapshot in memory it returns that snapshot's entry for the
\* upper-cased name (None when there is none), makes no exchange call and
\* changes neither cache_data nor the backing file, whatever the snapshot's age.
C6_NoRefreshOnRead ==
    [][(last'.op = "get_symbol_info")
       => (/\ last'.refreshed <=> ~Truthy(cache_data)
           /\ Truthy(cache_data)
              => (/\ cache_data' = cache_data
                  /\ cache_file' = cache_file
                  /\ ~last'.fetcher
                  /\ last'.bulk_calls = 0
                  /\ last'.bracket_calls = {}
                  /\ last'.info = {e \in cache_data.symbols : e.symbol = Upper(last'.symbol)}))]_vars

\* a read served from a snapshot older than the TTL while the file is unusable
C6_Witness ==
    /\ last.op = "get_symbol_info"
    /\ ~last.refreshed
    /\ binance_client
    /\ Truthy(cache_data)
    /\ last.at - cache_data.ts > CacheDuration
    /\ last.info # {}
    /\ cache_file.kind = "missing"

\* ------------------------------------------------------------------------
\* C7
\* ------------------------------------------------------------------------
QueryOps ==
    {"get_symbol_info", "round_price", "round_quantity", "validate_order_params",
     "get_leverage_brackets", "calculate_optimal_leverage", "get_leverage_info", "get_cache_stats"}

\* C7: no query operation raises an exception to its caller, in any reachable
\* state of the cache and of the backing file.
C7_QueriesNeverRaise == (last.op \in QueryOps) => last.raised = ""

\* get_leverage_brackets on an empty cache_data with a backing file that is a
\* fresh JSON object without 'symbols': the file is loaded, then KeyError
C7_Divergence ==
    /\ last.op = "get_leverage_brackets"
    /\ last.raised = "KeyError"
    /\ last.refreshed
    /\ last.ret
    /\ ~cache_data.hasSymbols

\* ------------------------------------------------------------------------
\* C8
\* ------------------------------------------------------------------------
\* C8 as stated: update_cache(force=False) that meets a backing file that is
\* missing, corrupt or without a readable timestamp, at the validity check
\* or at the load, invokes the Fetcher and never loads the file: it returns
\* True only with the snapshot fetched now, and otherwise returns False
\* leaving cache_data as it was; it raises nothing.
C8_UnusableFileIsNoCache ==
    [][(/\ last'.op = "update_cache"
        /\ ~last'.force
        /\ \/ UnusableFile(cache_file)
           \/ last'.env.between.changed /\ UnusableFile(last'.env.between.file))
       => (/\ last'.fetcher
           /\ last'.raised = ""
           /\ last'.ret => (/\ cache_data'.tsKind = "iso"
                            /\ cache_data'.ts = now
                            /\ cache_data'.hasSymbols
                            /\ SymbolNames(cache_data') = Requested(last'.env) \cap Listed(last'.env))
           /\ ~last'.ret => cache_data' = cache_data)]_vars

\* the backing file was fresh at the validity check and corrupt at the load:
\* True without a fetch, and nothing loaded
C8_Divergence ==
    /\ last.op = "update_cache"
    /\ ~last.force
    /\ last.ret
    /\ ~last.fetcher
    /\ last.env.between.changed
    /\ cache_file = CorruptFile
    /\ cache_data = EmptyDict

\* ------------------------------------------------------------------------
\* C9
\* ------------------------------------------------------------------------
\* C9: when the bulk call succeeds, the fetch succeeds whatever leverage calls
\* fail: the snapshot has one entry for each requested symbol the exchange
\* lists, an entry whose leverage call raised carries exactly the synthetic
\* bracket (20, 50000, 0.05), and every other entry carries the tiers its
\* call returned.
C9_PartialFailure ==
    (last.fetcher /\ binance_client /\ last.env.ex.bulk = "ok")
    => (/\ last.ret
        /\ cache_data.hasSymbols
        /\ SymbolNames(cache_data) = Requested(last.env) \cap Listed(last.env)
        /\ Cardinality(cache_data.symbols) = Cardinality(Requested(last.env) \cap Listed(last.env))
        /\ last.bracket_calls = SymbolNames(cache_data)
        /\ \A e \in cache_data.symbols :
              IF last.env.ex.kinds[e.symbol] = "fail"
              THEN /\ e.hasBrackets
                   /\ e.leverage_brackets =
                        <<[initialLeverage |-> 20, notionalCap |-> 50000, maintMarginRatio |-> "0.05"]>>
              ELSE BracketsOf(e) =
                     (IF last.env.ex.kinds[e.symbol] = "ok" THEN ExchangeBrackets(e.symbol) ELSE <<>>))

\* a snapshot of two symbols, one with the synthetic bracket, one with its tiers
C9_Witness ==
    /\ last.op = "update_cache"
    /\ last.fetcher
    /\ last.ret
    /\ \E e1, e2 \in cache_data.symbols :
          /\ last.env.ex.kinds[e1.symbol] = "fail"
          /\ e1.leverage_brackets = <<SyntheticBracket>>
          /\ last.env.ex.kinds[e2.symbol] = "ok"
          /\ e2.leverage_brackets = ExchangeBrackets(e2.symbol)

\* ------------------------------------------------------------------------
\* C10
\* ------------------------------------------------------------------------
\* C10 as stated: a refresh that reaches the Fetcher fails only if the bulk
\* exchange-metadata call was made and raised.
C10_FailsOnlyOnBulkError ==
    (last.fetcher /\ ~last.ret) => BulkCallErrored

\* C10 amended: a refresh that reaches the Fetcher fails exactly when there is
\* no exchange client or the bulk call raised; in every other situation it
\* returns True with a snapshot in cache_data.
C10_FailsOnlyWithoutClientOrOnBulkError ==
    last.fetcher
    => /\ ~last.ret <=> (~binance_client \/ BulkCallErrored)
       /\ ~last.ret => (last.bulk_calls = 0 <=> ~binance_client)
       /\ last.ret => (Truthy(cache_data) /\ cache_data.ts = last.at)

\* a refresh that succeeded although the leverage call failed for every symbol
C10_Witness ==
    /\ last.op = "update_cache"
    /\ last.fetcher
    /\ last.ret
    /\ Cardinality(cache_data.symbols) = 2
    /\ \A e \in cache_data.symbols : last.env.ex.kinds[e.symbol] = "fail"

\* ------------------------------------------------------------------------
\* Vocabulary of the properties about numbers
\* ------------------------------------------------------------------------
\* r is the multiple of size (an entry's value, in thousandths) nearest to x,
\* and the one above x when x lies halfway between two multiples
NearestMultipleHalfUp(x, r, size) ==
    LET E == Max2(Max2(x.e, r.e), EntryDigits)
        X == x.m * Pow10(E - x.e)
        R == r.m * Pow10(E - r.e)
        S == size * Pow10(E - EntryDigits)
    IN  /\ R % S = 0
        /\ 0 - S <= 2 * (X - R)
        /\ 2 * (X - R) < S

\* x is a multiple of size
IsMultiple(x, size) ==
    LET E == Max2(x.e, EntryDigits)
    IN  (x.m * Pow10(E - x.e)) % (size * Pow10(E - EntryDigits)) = 0

\* the same number
SameValue(a, b) == Norm(a) = Norm(b)

\* r has at most n digits after the point and no such decimal is nearer to x
RoundedToDigits(x, r, n) ==
    LET E == Max2(x.e, r.e)
        X == x.m * Pow10(E - x.e)
        R == r.m * Pow10(E - r.e)
        U == Pow10(Max2(E - n, 0))
    IN  /\ R % U = 0
        /\ 0 - U <= 2 * (X - R)
        /\ 2 * (X - R) <= U

\* lo <= x <= hi for the limits lo, hi of an entry
InRange(lo, x, hi) == DecLeq(EntryDec(lo), x) /\ DecLeq(x, EntryDec(hi))

\* the first bracket, in stored order, whose notionalCap is at least n (0: none)
FirstFit(brackets, n) ==
    LET I == {i \in DOMAIN brackets : n <= brackets[i].notionalCap}
    IN  IF I = {} THEN 0 ELSE CHOOSE i \in I : \A j \in I : i <= j

\* the snapshot in memory holds no leverage brackets for the symbol
NoBracketsCached(symbol) ==
    ~\E e \in cache_data.symbols : e.symbol = symbol /\ e.hasBrackets /\ e.leverage_brackets # <<>>

\* ------------------------------------------------------------------------
\* C11
\* ------------------------------------------------------------------------
\* C11: for a cached symbol, round_price of a non-negative price returns the
\* multiple of tick_size nearest to the price, a price halfway between two
\* multiples going to the upper one; 50000.125 with tick_size 0.01 gives
\* 50000.13.
C11_NearestTickHalfUp ==
    (last.op = "round_price" /\ last.q.price_info # {})
    => /\ NearestMultipleHalfUp(last.q.price, last.q.rounded_price,
                                EntryOf(last.q.price_info).tick_size)
       /\ (last.q.price = Dec(50000125, 3) /\ EntryOf(last.q.price_info).tick_size = Milli(0, 10))
          => last.q.rounded_price = Dec(5000013, 2)

\* round_price("BTCUSDT", 50000.125) with tick_size 0.01 returned 50000.13
C11_Witness ==
    /\ last.op = "round_price"
    /\ last.symbol = "BTCUSDT"
    /\ last.q.price_info # {}
    /\ EntryOf(last.q.price_info).tick_size = Milli(0, 10)
    /\ last.q.price = Dec(50000125, 3)
    /\ last.q.rounded_price = Dec(5000013, 2)

\* ------------------------------------------------------------------------
\* C12
\* ------------------------------------------------------------------------
\* C12: for a cached symbol, round_price returns a price that is a multiple
\* of tick_size unchanged, and round_price applied to what round_price just
\* returned for the same symbol returns it again.
C12_MultipleIsFixedPoint ==
    [][ (last'.op = "round_price" /\ last'.q.price_info # {})
        => /\ IsMultiple(last'.q.price, EntryOf(last'.q.price_info).tick_size)
              => SameValue(last'.q.rounded_price, last'.q.price)
           /\ (/\ last.op = "round_price"
               /\ last.q.price_info # {}
               /\ last.symbol = last'.symbol
               /\ last'.q.price = last.q.rounded_price)
              => last'.q.rounded_price = last.q.rounded_price ]_vars

\* round_price was given 50000.13, which only an earlier round_price
\* returns, for a symbol of tick_size 0.01 and returned it
C12_Witness ==
    /\ last.op = "round_price"
    /\ last.q.price_info # {}
    /\ EntryOf(last.q.price_info).tick_size = Milli(0, 10)
    /\ last.q.price = Dec(5000013, 2)
    /\ last.q.rounded_price = Dec(5000013, 2)

\* ------------------------------------------------------------------------
\* C13
\* ------------------------------------------------------------------------
\* C13: for a cached symbol, round_quantity of a non-negative quantity
\* returns the multiple of step_size nearest to the quantity, a quantity
\* halfway between two multiples going to the upper one.
C13_NearestStepHalfUp ==
    (last.op = "round_quantity" /\ last.q.quantity_info # {})
    => NearestMultipleHalfUp(last.q.quantity, last.q.rounded_quantity,
                             EntryOf(last.q.quantity_info).step_size)

\* round_quantity of 2.5 for a symbol of step_size 1.0 and tick_size 0.001
\* returned 3
C13_Witness ==
    /\ last.op = "round_quantity"
    /\ last.q.quantity_info # {}
    /\ EntryOf(last.q.quantity_info).step_size = Milli(1, 0)
    /\ EntryOf(last.q.quantity_info).tick_size = Milli(0, 1)
    /\ last.q.quantity = Dec(25, 1)
    /\ last.q.rounded_quantity = Dec(3, 0)

\* ------------------------------------------------------------------------
\* C14
\* ------------------------------------------------------------------------
\* C14: validate_order_params for a symbol with cached metadata returns the
\* price rounded to tick_size, the quantity rounded to step_size, and
\* is_valid true exactly when min_price <= price' <= max_price and
\* min_qty <= qty' <= max_qty; the values returned are the rounded ones also
\* when they are out of bounds.
C14_ValidIffWithinLimits ==
    (last.op = "validate_order_params" /\ last.q.info # {})
    => LET e == EntryOf(last.q.info)
       IN  /\ NearestMultipleHalfUp(last.q.price, last.q.rounded_price, e.tick_size)
           /\ NearestMultipleHalfUp(last.q.quantity, last.q.rounded_quantity, e.step_size)
           /\ last.q.is_valid <=> (/\ InRange(e.min_price, last.q.rounded_price, e.max_price)
                                   /\ InRange(e.min_qty, last.q.rounded_quantity, e.max_qty))

\* a price below min_price with a quantity above max_qty: not valid, and the
\* values returned are 0.13 and 2000, not the limits
C14_Witness ==
    /\ last.op = "validate_order_params"
    /\ last.q.info # {}
    /\ last.q.price = Dec(125, 3)
    /\ last.q.quantity = Dec(2000, 0)
    /\ DecLess(last.q.rounded_price, EntryDec(EntryOf(last.q.info).min_price))
    /\ DecLess(EntryDec(EntryOf(last.q.info).max_qty), last.q.rounded_quantity)
    /\ last.q.rounded_price = Dec(13, 2)
    /\ last.q.rounded_quantity = Dec(2000, 0)
    /\ ~last.q.is_valid

\* ------------------------------------------------------------------------
\* C15
\* ------------------------------------------------------------------------
\* C15: with cached brackets, calculate_optimal_leverage returns the smaller
\* of default_leverage and the initialLeverage of the first bracket, in
\* stored order, whose notionalCap is at least the notional value; for the
\* brackets (50000, 20), (250000, 10), (unbounded, 5) it returns 20 for
\* (10000, default 20), 10 for (100000, default 20), 5 for (100000, default 5).
C15_FirstFittingBracket ==
    (last.op = "calculate_optimal_leverage" /\ last.raised = "" /\ last.brackets # <<>>)
    => LET i == FirstFit(last.brackets, last.q.notional_value)
       IN  /\ i # 0 => last.q.leverage = Min2(last.q.default_leverage, last.brackets[i].initialLeverage)
           /\ last.brackets = ExchangeBrackets("BTCUSDT")
              => /\ (last.q.notional_value = 10000 /\ last.q.default_leverage = 20) => last.q.leverage = 20
                 /\ (last.q.notional_value = 100000 /\ last.q.default_leverage = 20) => last.q.leverage = 10
                 /\ (last.q.notional_value = 100000 /\ last.q.default_leverage = 5) => last.q.leverage = 5

\* the second of three brackets was selected
C15_Witness ==
    /\ last.op = "calculate_optimal_leverage"
    /\ last.raised = ""
    /\ Len(last.brackets) = 3
    /\ last.q.notional_value = 100000
    /\ last.q.default_leverage = 20
    /\ FirstFit(last.brackets, last.q.notional_value) = 2
    /\ last.q.leverage = 10

\* ------------------------------------------------------------------------
\* C16
\* ------------------------------------------------------------------------
\* C16 as stated: whenever brackets are cached for the symbol, the result of
\* calculate_optimal_leverage does not exceed the largest initialLeverage
\* among the symbol's brackets, whatever the notional value.
C16_NeverAboveLargestBracket ==
    (last.op = "calculate_optimal_leverage" /\ last.raised = "" /\ last.brackets # <<>>)
    => \E i \in DOMAIN last.brackets : last.q.leverage <= last.brackets[i].initialLeverage

\* ------------------------------------------------------------------------
\* C17
\* ------------------------------------------------------------------------
\* C17 as stated: when no leverage brackets are cached for the symbol,
\* calculate_optimal_leverage raises nothing and returns default_leverage.
C17_DefaultWithoutBrackets ==
    (last.op = "calculate_optimal_leverage" /\ NoBracketsCached(last.symbol))
    => /\ last.raised = ""
       /\ last.q.leverage = last.q.default_leverage

\* ------------------------------------------------------------------------
\* C18
\* ------------------------------------------------------------------------
\* C18: when the lookup of validate_order_params finds no metadata, is_valid
\* is true exactly when price' > 0 and qty' > 0, and the price and the
\* quantity, whose roundings found no metadata either, are rounded by the
\* name heuristic (1 and 3 digits for a name with "BTC", 2 and 6 otherwise).
C18_BasicCheckWithoutMetadata ==
    (last.op = "validate_order_params" /\ last.q.info = {})
    => /\ last.q.is_valid <=> (/\ DecLess(Zero, last.q.rounded_price)
                               /\ DecLess(Zero, last.q.rounded_quantity))
       /\ last.q.price_info = {}
          => RoundedToDigits(last.q.price, last.q.rounded_price,
                             IF ContainsBTC(last.symbol) THEN 1 ELSE 2)
       /\ last.q.quantity_info = {}
          => RoundedToDigits(last.q.quantity, last.q.rounded_quantity,
                             IF ContainsBTC(last.symbol) THEN 3 ELSE 6)

\* an order for a symbol without metadata that is far beyond the limits of
\* every symbol and is valid
C18_Witness ==
    /\ last.op = "validate_order_params"
    /\ last.q.info = {}
    /\ last.q.price_info = {}
    /\ last.q.quantity_info = {}
    /\ last.q.price = Dec(50000125, 3)
    /\ last.q.rounded_price = Dec(5000012, 2)
    /\ last.q.rounded_quantity = Dec(2000, 0)
    /\ last.q.is_valid

\* ------------------------------------------------------------------------
\* C19
\* ------------------------------------------------------------------------
\* C19: round_price for a symbol without a cache entry returns the price
\* rounded to 1 digit after the point when the name contains "BTC" and to 2
\* digits otherwise; FAKEUSDT, 1.23456 gives 1.23.
C19_FallbackDigits ==
    (last.op = "round_price" /\ last.q.price_info = {})
    => /\ ContainsBTC(last.symbol) => RoundedToDigits(last.q.price, last.q.rounded_price, 1)
       /\ ~ContainsBTC(last.symbol) => RoundedToDigits(last.q.price, last.q.rounded_price, 2)
       /\ (last.symbol = "FAKEUSDT" /\ last.q.price = Dec(123456, 5))
          => last.q.rounded_price = Dec(123, 2)

\* round_price("FAKEUSDT", 1.23456) served from a snapshot without FAKEUSDT
C19_Witness ==
    /\ last.op = "round_price"
    /\ last.symbol = "FAKEUSDT"
    /\ Truthy(cache_data)
    /\ last.q.price_info = {}
    /\ last.q.price = Dec(123456, 5)
    /\ last.q.rounded_price = Dec(123, 2)

\* ------------------------------------------------------------------------
\* C20
\* ------------------------------------------------------------------------
\* C20 as stated: every entry of every snapshot the Fetcher produces has
\* tick_size > 0 and step_size > 0; an entry whose exchange record has no
\* PRICE_FILTER has tick_size 0.01 and one whose record has no LOT_SIZE
\* filter has step_size 0.001.
C20_PositiveSizes ==
    (last.op = "update_cache" /\ last.fetcher /\ last.ret)
    => \A e \in cache_data.symbols :
          /\ e.tick_size > 0
          /\ e.step_size > 0
          /\ \E rec \in last.env.ex.records :
                /\ rec.symbol = e.symbol
                /\ ~rec.price_filter.present => e.tick_size = Milli(0, 10)
                /\ ~rec.lot_size_filter.present => e.step_size = Milli(0, 1)

\* a snapshot was fetched from an exchange whose PRICE_FILTER of a symbol
\* has tickSize "0.000": the entry carries tick_size 0
C20_Divergence ==
    /\ last.op = "update_cache"
    /\ last.fetcher
    /\ last.ret
    /\ \E rec \in last.env.ex.records :
          /\ rec.price_filter.present
          /\ rec.price_filter.tick = 0
          /\ \E e \in cache_data.symbols : e.symbol = rec.symbol /\ e.tick_size = 0

\* what the Fetcher does establish: a missing filter gets the default, a
\* filter that is there has its size copied as the exchange gave it
C20_DefaultsAndCopies ==
    (last.op = "update_cache" /\ last.fetcher /\ last.ret)
    => \A e \in cache_data.symbols :
          \E rec \in last.env.ex.records :
             /\ rec.symbol = e.symbol
             /\ e.tick_size = IF rec.price_filter.present THEN rec.price_filter.tick ELSE Milli(0, 10)
             /\ e.step_size = IF rec.lot_size_filter.present THEN rec.lot_size_filter.tick ELSE Milli(0, 1)

\* a snapshot fetched from records of which one lacks the PRICE_FILTER and
\* another the LOT_SIZE filter
C20_Witness ==
    /\ last.op = "update_cache"
    /\ last.fetcher
    /\ last.ret
    /\ \E r1, r2 \in last.env.ex.records :
          /\ ~r1.price_filter.present
          /\ ~r2.lot_size_filter.present
          /\ r1.lot_size_filter.present
    /\ \E e \in cache_data.symbols : e.tick_size = Milli(0, 10) /\ e.step_size = Milli(0, 1)

\* ------------------------------------------------------------------------
\* C28
\* ------------------------------------------------------------------------
\* C28 as stated: whenever update_cache returns True, cache_data is not
\* empty and holds both a timestamp and a symbols mapping, whether it was
\* loaded from a fresh file or fetched, and whatever another process wrote
\* to the backing file meanwhile.
C28_TrueMeansUsableSnapshot ==
    (last.op = "update_cache" /\ last.ret)
    => /\ Truthy(cache_data)
       /\ cache_data.tsKind # "absent"
       /\ cache_data.hasSymbols

\* ------------------------------------------------------------------------
\* C29
\* ------------------------------------------------------------------------
\* C29 as stated: within one validate_order_params call the validity is
\* decided by the metadata-unavailable rule exactly when the price is
\* rounded by the name heuristic, and exactly when the quantity is.
C29_OneMetadataStatePerCall ==
    (last.op = "validate_order_params")
    => /\ last.q.info = {} <=> last.q.price_info = {}
       /\ last.q.info = {} <=> last.q.quantity_info = {}

\* ------------------------------------------------------------------------
\* C30
\* ------------------------------------------------------------------------
\* C30 as stated: for a symbol string in any letter case, if get_symbol_info
\* finds a cached entry, get_leverage_brackets of the same string returns
\* that entry's leverage_brackets.
C30_SameSymbolResolution ==
    (last.op = "get_leverage_brackets" /\ SymbolsGet(cache_data, Upper(last.symbol)) # {})
    => /\ last.raised = ""
       /\ last.brackets = BracketsOf(EntryOf(SymbolsGet(cache_data, Upper(last.symbol))))

\* ------------------------------------------------------------------------
\* C26, C27
\* ------------------------------------------------------------------------
\* the HTTP request for the i-th message was accepted
Delivered(i) ==
    \E k \in DOMAIN telegram.requests :
        telegram.requests[k].result = i /\ telegram.requests[k].ret

\* C26 as stated: send_to_telegram returns True only when the request for
\* its message was accepted, and send_multiple_to_telegram counts in
\* success_count only messages whose request was accepted.
C26_SuccessMeansDelivered ==
    telegram.present
    => /\ (telegram.op = "send_to_telegram" /\ telegram.ret) => Delivered(1)
       /\ telegram.op = "send_multiple_to_telegram"
          => telegram.success_count <= Cardinality({i \in DOMAIN telegram.results : Delivered(i)})

\* C27 as stated: _send_request reports a send as failed only after the
\* configured number of attempts has been made.
C27_RetriesBeforeFailure ==
    telegram.present
    => \A k \in DOMAIN telegram.requests :
          ~telegram.requests[k].ret => telegram.requests[k].attempts = MAX_API_RETRIES

\* ------------------------------------------------------------------------
\* C22 .. C25
\* ------------------------------------------------------------------------
\* the analyzer has been started at least once
Executed == scheduler.present /\ scheduler.execution.tick # NoTick

\* next_tick has been moved on after the latest execution
Advanced == Executed /\ scheduler.advanced

\* the latest execution finished later than the tick following its own
Overrun ==
    scheduler.execution.finished > scheduler.execution.tick + scheduler.interval_seconds

\* t is a whole multiple of the interval counted from 00:00 of the day d falls on
MultipleFromMidnightOf(t, d) ==
    (t - get_local_midnight_timestamp(d)) % scheduler.interval_seconds = 0

\* C22 as stated: every tick at which the analyzer is started is a whole
\* multiple of the interval counted from 00:00 of the day the tick falls on.
C22_TicksAlignedToMidnight ==
    Executed => MultipleFromMidnightOf(scheduler.execution.tick, scheduler.execution.tick)

\* C23: after an overrun next_tick is the first interval multiple, counted
\* from the midnight of the day of the finish time, at or after the finish
\* time; after every execution next_tick is not earlier than its finish
\* time; and no tick is executed twice.
C23_OverrunSkipsMissedTicks ==
    /\ (Advanced /\ Overrun)
       => /\ MultipleFromMidnightOf(scheduler.next_tick, scheduler.execution.finished)
          /\ scheduler.next_tick >= scheduler.execution.finished
          /\ scheduler.next_tick - scheduler.interval_seconds < scheduler.execution.finished
    /\ Advanced => scheduler.next_tick >= scheduler.execution.finished
    /\ (Executed /\ scheduler.previous_tick # NoTick)
       => scheduler.execution.tick > scheduler.previous_tick

\* an execution overran by more than one interval and next_tick jumped
C23_Witness ==
    /\ Advanced /\ Overrun
    /\ scheduler.next_tick > scheduler.execution.tick + 2 * scheduler.interval_seconds

\* C24: run_scheduler returns only after a shutdown signal; after a run
\* that failed or timed out, just as after a successful one, next_tick is
\* later than the executed tick, and exactly one interval later when the
\* run did not overrun.
C24_FailureKeepsSchedule ==
    /\ (scheduler.present /\ scheduler.pc = "returned") => ~scheduler.running
    /\ Advanced
       => /\ scheduler.next_tick > scheduler.execution.tick
          /\ ~Overrun => scheduler.next_tick = scheduler.execution.tick + scheduler.interval_seconds
    /\ (Executed /\ scheduler.pc = "advance") => scheduler.next_tick = scheduler.execution.tick

\* a failed run was followed by next_tick one interval later, the loop going on
C24_Witness ==
    /\ Advanced /\ ~scheduler.execution.success /\ ~Overrun
    /\ scheduler.running /\ scheduler.pc = "check"
    /\ scheduler.next_tick = scheduler.execution.tick + scheduler.interval_seconds

\* the liveness half of C25: once the signal has been handled,
\* run_scheduler eventually returns
C25_EventuallyReturns ==
    (scheduler.present /\ ~scheduler.running) ~> (scheduler.pc = "returned")

\* C25 as stated (its safety half): no analyzer execution is started after
\* the shutdown signal was handled.
C25_NoExecutionAfterSignal ==
    Executed => scheduler.execution.running

\* ------------------------------------------------------------------------
\* C21
\* ------------------------------------------------------------------------
\* both processes have finished a refresh that fetched and saved
BothRefreshed ==
    /\ race.present
    /\ \A p \in Procs : race.proc[p].pc = "done" /\ race.proc[p].saved

\* C21 as stated: after two processes have both finished a refresh, the
\* file holds exactly the complete snapshot of the process that wrote last,
\* and each process holds its own fetch result in memory.
C21_LastWriteWins ==
    BothRefreshed
    => /\ race.file.cells = Dump(race.proc[race.last_writer].doc)
       /\ \A p \in Procs : race.proc[p].cache_data = race.proc[p].doc

\* both have refreshed, the one that wrote last saved a document of one
\* block in a single write, and the file holds that document followed by
\* the second block of the other's longer one: no JSON document
C21_Divergence ==
    /\ BothRefreshed
    /\ race.last_writer \in Procs
    /\ race.proc[race.last_writer].doc.len = 1
    /\ Len(race.file.cells) = 2
    /\ race.file.cells[1] = Dump(race.proc[race.last_writer].doc)[1]
    /\ race.file.cells[2].owner \in Procs \ {race.last_writer}
    /\ race.file.cells[2].idx = 2
    /\ JsonLoad(race.file.cells) = NoDoc

\* both have refreshed and the file is a readable document that neither of
\* them fetched
C21_Hybrid ==
    /\ BothRefreshed
    /\ JsonLoad(race.file.cells).owner = Mixed

====
